---------------------------- MODULE Spec2Model ----------------------------
(***************************************************************************)
(* Model of the ftl-aws-tools wrappers: each tool's __call__ builds a      *)
(* module_args dictionary from its keyword parameters, merges the overflow *)
(* kwargs, hands the dictionary to the context's module runner and returns *)
(* the runner's output.  The module also covers the helper functions that  *)
(* build policies, rules, tags and module arguments, and the session an    *)
(* AWSConfig creates on first use and keeps.                               *)
(*                                                                         *)
(* Python values are tagged tuples, so that None, "", 0, False and empty   *)
(* containers stay distinct while all of them are falsy.                   *)
(***************************************************************************)
EXTENDS Integers, Sequences, FiniteSets, TLC

\* ------------------------------------------------------------------ bounds
\* number of distinct non-empty strings a caller may pass
NumStr == 2
\* integers a caller may pass are 0 .. MaxInt
MaxInt == 1
\* number of keys in the overflow kwargs of one call
MaxKwargs == 1

\* number of other calls made between a call and its repetition
MaxBetween == 1
\* the tool invocations that run at the same time
MaxCalls == 2
\* the longest list a caller passes to a helper function
MaxItems == 2

\* the threads that read the session property of one AWSConfig
MaxThreads == 2

\* the reads of the session property one thread makes
MaxAccesses == 2

\* ------------------------------------------------------------------- state
VARIABLES
    pc,           \* where the current __call__ is
    tool,         \* the tool (its module attribute) being called
    req,          \* the named parameters of the call
    kwargs,       \* the overflow **kwargs of the call
    module_args,  \* the local dictionary module_args
    runner,       \* the invocations of the module runner in this call: the module, the
                  \* arguments, and what the runner returned or raised
    output,       \* the local variable output
    result,       \* what the call returned to the caller
    error,        \* the exception that left the call, if any
    events,       \* the collaborators called so far in this call, in order, each with
                  \* what it was called for
    earlier,      \* an earlier call and the map it handed to the runner
    aws_config,   \* the attributes of one AWSConfig instance
    sessions,     \* the boto3.Session(...) calls made for that instance, in order
    access        \* where each thread is in its read of the session property

vars == <<pc, tool, req, kwargs, module_args, runner, output, result, error, events, earlier,
          aws_config, sessions, access>>

\* no call has been kept
NoCall == [tool |-> "none"]

\* no AWSConfig has been constructed, and no thread reads its session
NoConfig == [constructed |-> FALSE]

NoAccess == [t \in {} |-> "idle"]

\* ------------------------------------------------------------ Python values
None == <<"none">>
PyStr(s) == <<"str", s>>
PyInt(i) == <<"int", i>>
PyBool(b) == <<"bool", b>>
\* a dict is the sequence of its (key, value) items, a list the sequence of its elements
PyDict(items) == <<"dict", items>>
PyList(elems) == <<"list", elems>>

\* bool(v): what `if v:` tests
Truthy(v) ==
    CASE v[1] = "none" -> FALSE
      [] v[1] = "str"  -> v[2] # ""
      [] v[1] = "int"  -> v[2] # 0
      [] v[1] = "bool" -> v[2]
      [] v[1] = "dict" -> Len(v[2]) > 0
      [] v[1] = "list" -> Len(v[2]) > 0

\* `v is not None`
IsNotNone(v) == v[1] # "none"

\* `a or b`
Or(a, b) == IF Truthy(a) THEN a ELSE b

\* ---------------------------------------------------------- dictionaries
\* A module_args dictionary is a function from its keys (strings) to values.
EmptyMap == [k \in {} |-> None]

\* module_args[key] = value, executed under `if cond:`
Opt(cond, key, value) == IF cond THEN key :> value ELSE EmptyMap

\* successive assignments to one dictionary: a later part wins on a shared key
RECURSIVE AssignFrom(_, _)
AssignFrom(parts, n) ==
    IF n = 0 THEN EmptyMap ELSE parts[n] @@ AssignFrom(parts, n - 1)

Assign(parts) == AssignFrom(parts, Len(parts))

\* Update as setdefault would do it: a key the named rules wrote is kept
UpdateKeepNamed(args, kw) ==
    [k \in DOMAIN args \cup DOMAIN kw |->
        IF k \in DOMAIN args THEN args[k] ELSE kw[k]]

\* module_args.update(kwargs): kwargs wins on a key the named rules also wrote
Update(args, kw) ==
    [k \in DOMAIN args \cup DOMAIN kw |->
        IF k \in DOMAIN kw THEN kw[k] ELSE args[k]]


\* ------------------------------------------------------ caller's inputs
\* the non-empty strings "s1" .. "s<NumStr>"
StrVal(i) == PyStr("s" \o ToString(i))
Strings == {StrVal(i) : i \in 1..NumStr}
OptStr == {None, PyStr("")} \cup Strings
\* None, the empty string and one non-empty string
OptStr1 == {None, PyStr(""), StrVal(1)}
OptInt == {None} \cup {PyInt(i) : i \in 0..MaxInt}
Bools == {PyBool(TRUE), PyBool(FALSE)}
OptBool == {None} \cup Bools
OptDict == {None, PyDict(<<>>), PyDict(<< <<"Owner", StrVal(1)>> >>)}
OptList == {None, PyList(<<>>), PyList(<<StrVal(1)>>)}
States == {PyStr("present"), PyStr("absent")}

\* the requests that differ from the defaults d exactly on the parameters in
\* fields, each drawn from its domain dom[p]
Vary(d, fields, dom) ==
    LET all == UNION {dom[p] : p \in fields}
    IN  { [p \in DOMAIN d |-> IF p \in fields THEN f[p] ELSE d[p]] :
            f \in {g \in [fields -> all] : \A p \in fields : g[p] \in dom[p]} }

\* every parameter varied on its own, and the parameters of each group varied together
RequestsOf(d, dom, groups) ==
    UNION {Vary(d, g, dom) : g \in groups \cup {{p} : p \in DOMAIN dom}}

\* values a caller passes through **kwargs
KwValues == {PyStr("kw"), None}

\* the kwargs dictionaries with at most MaxKwargs of the given keys
KwargsOver(keys) ==
    UNION { [ks -> KwValues] : ks \in {x \in SUBSET keys : Cardinality(x) <= MaxKwargs} }

\* ------------------------------------------------------ ambient region
\* the environment a call runs in: the two environment variables _detect_region
\* reads and the region_name of a boto3.Session() (None when boto3 has no region
\* or raises)
NoEnvironment == [AWS_REGION |-> None, AWS_DEFAULT_REGION |-> None, session_region |-> None]

Environments ==
    [AWS_REGION : {None, PyStr("eu-west-1")},
     AWS_DEFAULT_REGION : {None, PyStr(""), PyStr("eu-west-2")},
     session_region : {None, PyStr("eu-west-3")}]

\* AWSConfig._detect_region in environment env
_detect_region(env) ==
    LET region == Or(env.AWS_REGION, env.AWS_DEFAULT_REGION)
    IN  IF Truthy(region) THEN region
        ELSE IF Truthy(env.session_region) THEN env.session_region
        ELSE PyStr("us-east-1")

\* AWSConfig(region, profile) constructed in environment env: the new instance
AWSConfig(region, profile, env) ==
    [region |-> Or(region, _detect_region(env)), profile |-> profile, _session |-> None]

\* get_aws_region() called in environment env
get_aws_region(env) == AWSConfig(None, None, env).region

\* ------------------------------------------------- rules every tool repeats
\* Tags storing the caller's tags merged over default tags
TagsWithDefaults(r) ==
    IF Truthy(r.tags)
    THEN [tags |-> PyDict(<< <<"ManagedBy", PyStr("FTL-Automation")>> >> \o r.tags[2])]
    ELSE EmptyMap

\* if tags: module_args["tags"] = tags
Tags(r) == Opt(Truthy(r.tags), "tags", r.tags)

\* Region storing an ambient region when the caller gives none
RegionAmbient(r) ==
    [region |-> IF Truthy(r.region) THEN r.region ELSE PyStr("us-east-1")]

\* if region: module_args["region"] = region
Region(r) == Opt(Truthy(r.region), "region", r.region)

\* ------------------------------------------------------------ LambdaFunction
LambdaDefaults ==
    [name |-> StrVal(1), state |-> PyStr("present"), runtime |-> None, role |-> None,
     handler |-> None, zip_file |-> None, s3_bucket |-> None, s3_key |-> None,
     s3_object_version |-> None, description |-> None, timeout |-> None,
     memory_size |-> None, environment |-> None, dead_letter_config |-> None,
     tracing_config |-> None, kms_key_arn |-> None, layers |-> None,
     vpc_config |-> None, reserved_concurrency |-> None,
     provisioned_concurrency_config |-> None, tags |-> None,
     purge_tags |-> PyBool(TRUE), code_sha256 |-> None, image_uri |-> None,
     package_type |-> PyStr("Zip"), image_config |-> None, architectures |-> None,
     ephemeral_storage |-> None, file_system_configs |-> None, region |-> None]

LambdaDomain ==
    [name |-> Strings, state |-> States, runtime |-> OptStr, role |-> OptStr,
     handler |-> OptStr, zip_file |-> OptStr1, s3_bucket |-> OptStr1, s3_key |-> OptStr1,
     s3_object_version |-> OptStr1, description |-> OptStr, timeout |-> OptInt,
     memory_size |-> OptInt, environment |-> OptDict, dead_letter_config |-> OptDict,
     tracing_config |-> OptDict, kms_key_arn |-> OptStr, layers |-> OptList,
     vpc_config |-> OptDict, reserved_concurrency |-> OptInt,
     provisioned_concurrency_config |-> OptDict, tags |-> OptDict,
     purge_tags |-> Bools, code_sha256 |-> OptStr, image_uri |-> OptStr1,
     package_type |-> {PyStr("Zip"), PyStr("Image")}, image_config |-> OptDict,
     architectures |-> OptList, ephemeral_storage |-> OptDict,
     file_system_configs |-> OptList, region |-> OptStr]

LambdaCodeFields == {"zip_file", "s3_bucket", "s3_key", "s3_object_version", "image_uri"}

\* LambdaRuntimeHandler with the `if runtime:` test lost
LambdaRuntimeHandlerUntested(r) ==
    IF r.package_type = PyStr("Zip")
    THEN Assign(<<"runtime" :> r.runtime,
                  Opt(Truthy(r.handler), "handler", r.handler)>>)
    ELSE EmptyMap

\* LambdaRuntimeHandler with the `if package_type == "Zip":` test lost
LambdaRuntimeHandlerAnyType(r) ==
    Assign(<<Opt(Truthy(r.runtime), "runtime", r.runtime),
             Opt(Truthy(r.handler), "handler", r.handler)>>)

\* runtime and handler, for Zip packages only
LambdaRuntimeHandler(r) ==
    IF r.package_type = PyStr("Zip")
    THEN Assign(<<Opt(Truthy(r.runtime), "runtime", r.runtime),
                  Opt(Truthy(r.handler), "handler", r.handler)>>)
    ELSE EmptyMap

\* LambdaCodeSource with the S3 pair tested before zip_file
LambdaCodeSourceS3First(r) ==
    IF Truthy(r.s3_bucket) /\ Truthy(r.s3_key)
    THEN Assign(<<"s3_bucket" :> r.s3_bucket, "s3_key" :> r.s3_key,
                  Opt(Truthy(r.s3_object_version), "s3_object_version", r.s3_object_version)>>)
    ELSE IF Truthy(r.zip_file)
    THEN "zip_file" :> r.zip_file
    ELSE IF Truthy(r.image_uri)
    THEN "image_uri" :> r.image_uri
    ELSE EmptyMap

\* LambdaCodeSource with three independent `if`s in place of the elif chain
LambdaCodeSourceIndependent(r) ==
    Assign(<<Opt(Truthy(r.zip_file), "zip_file", r.zip_file),
             Opt(Truthy(r.s3_bucket), "s3_bucket", r.s3_bucket),
             Opt(Truthy(r.s3_key), "s3_key", r.s3_key),
             Opt(Truthy(r.s3_object_version), "s3_object_version", r.s3_object_version),
             Opt(Truthy(r.image_uri), "image_uri", r.image_uri)>>)

\* LambdaCodeSource with a closing `else` that stores zip_file whatever it is
LambdaCodeSourceElseZip(r) ==
    IF Truthy(r.zip_file)
    THEN "zip_file" :> r.zip_file
    ELSE IF Truthy(r.s3_bucket) /\ Truthy(r.s3_key)
    THEN Assign(<<"s3_bucket" :> r.s3_bucket, "s3_key" :> r.s3_key,
                  Opt(Truthy(r.s3_object_version), "s3_object_version", r.s3_object_version)>>)
    ELSE IF Truthy(r.image_uri)
    THEN "image_uri" :> r.image_uri
    ELSE "zip_file" :> r.zip_file

\* the if / elif / elif chain over the code sources
LambdaCodeSource(r) ==
    IF Truthy(r.zip_file)
    THEN "zip_file" :> r.zip_file
    ELSE IF Truthy(r.s3_bucket) /\ Truthy(r.s3_key)
    THEN Assign(<<"s3_bucket" :> r.s3_bucket, "s3_key" :> r.s3_key,
                  Opt(Truthy(r.s3_object_version), "s3_object_version", r.s3_object_version)>>)
    ELSE IF Truthy(r.image_uri)
    THEN "image_uri" :> r.image_uri
    ELSE EmptyMap

\* reserved_concurrency is tested against None, so that 0 is kept
LambdaConcurrency(r) ==
    Assign(<<Opt(IsNotNone(r.reserved_concurrency), "reserved_concurrency", r.reserved_concurrency),
             Opt(Truthy(r.provisioned_concurrency_config),
                 "provisioned_concurrency_config", r.provisioned_concurrency_config)>>)

\* LambdaBase storing package_type only when it is not the default
LambdaBaseTypeIfGiven(r) ==
    Assign(<<[name |-> r.name, state |-> r.state, purge_tags |-> r.purge_tags],
             Opt(r.package_type # PyStr("Zip"), "package_type", r.package_type)>>)

\* LambdaBase storing purge_tags only together with tags
LambdaBasePurgeWithTags(r) ==
    Assign(<<[name |-> r.name, state |-> r.state, package_type |-> r.package_type],
             Opt(Truthy(r.tags), "purge_tags", r.purge_tags)>>)

\* the dictionary literal module_args starts as
LambdaBase(r) ==
    [name |-> r.name, state |-> r.state, purge_tags |-> r.purge_tags,
     package_type |-> r.package_type]

LambdaFunctionArgs(r) ==
      Assign(<<
        LambdaBase(r),
        LambdaRuntimeHandler(r),
        Opt(Truthy(r.role), "role", r.role),
        LambdaCodeSource(r),
        Opt(Truthy(r.description), "description", r.description),
        Opt(Truthy(r.timeout), "timeout", r.timeout),
        Opt(Truthy(r.memory_size), "memory_size", r.memory_size),
        Opt(Truthy(r.environment), "environment_variables", r.environment),
        Opt(Truthy(r.dead_letter_config), "dead_letter_config", r.dead_letter_config),
        Opt(Truthy(r.tracing_config), "tracing_config", r.tracing_config),
        Opt(Truthy(r.kms_key_arn), "kms_key_arn", r.kms_key_arn),
        Opt(Truthy(r.layers), "layers", r.layers),
        Opt(Truthy(r.vpc_config), "vpc_config", r.vpc_config),
        LambdaConcurrency(r),
        Opt(Truthy(r.image_config), "image_config", r.image_config),
        Opt(Truthy(r.architectures), "architectures", r.architectures),
        Opt(Truthy(r.ephemeral_storage), "ephemeral_storage", r.ephemeral_storage),
        Opt(Truthy(r.file_system_configs), "file_system_configs", r.file_system_configs),
        Tags(r),
        Region(r)>>)

\* ------------------------------------------------------------------ S3Bucket
S3Defaults ==
    [name |-> StrVal(1), state |-> PyStr("present"), policy |-> None,
     requester_pays |-> PyBool(FALSE), tags |-> None, purge_tags |-> PyBool(TRUE),
     versioning |-> None, encryption |-> None, encryption_key_id |-> None,
     bucket_key_enabled |-> PyBool(FALSE), public_access_block |-> None,
     delete_public_access_block |-> PyBool(FALSE), object_lock_enabled |-> PyBool(FALSE),
     acl |-> None, validate_bucket_name |-> PyBool(TRUE), dualstack |-> PyBool(FALSE),
     accelerate |-> PyBool(FALSE), region |-> None]

S3Domain ==
    [name |-> Strings, state |-> States, policy |-> OptDict, requester_pays |-> Bools,
     tags |-> OptDict, purge_tags |-> Bools, versioning |-> OptBool,
     encryption |-> OptStr, encryption_key_id |-> OptStr, bucket_key_enabled |-> Bools,
     public_access_block |-> OptDict, delete_public_access_block |-> Bools,
     object_lock_enabled |-> Bools, acl |-> OptStr, validate_bucket_name |-> Bools,
     dualstack |-> Bools, accelerate |-> Bools, region |-> OptStr]

\* S3Versioning with `if versioning:` in place of `if versioning is not None:`
S3VersioningTruthy(r) == Opt(Truthy(r.versioning), "versioning", r.versioning)

\* versioning is tested against None, so that False (suspend) is kept
S3Versioning(r) == Opt(IsNotNone(r.versioning), "versioning", r.versioning)

S3BucketArgs(r) ==
      Assign(<<
        [name |-> r.name, state |-> r.state, requester_pays |-> r.requester_pays,
         purge_tags |-> r.purge_tags, bucket_key_enabled |-> r.bucket_key_enabled,
         delete_public_access_block |-> r.delete_public_access_block,
         object_lock_enabled |-> r.object_lock_enabled,
         validate_bucket_name |-> r.validate_bucket_name, dualstack |-> r.dualstack,
         accelerate_enabled |-> r.accelerate],
        Opt(Truthy(r.policy), "policy", r.policy),
        Tags(r),
        S3Versioning(r),
        Opt(Truthy(r.encryption), "encryption", r.encryption),
        Opt(Truthy(r.encryption_key_id), "encryption_key_id", r.encryption_key_id),
        Opt(Truthy(r.public_access_block), "public_access", r.public_access_block),
        Opt(Truthy(r.acl), "acl", r.acl),
        Region(r)>>)

\* -------------------------------------------------------------------- KMSKey
KMSDefaults ==
    [alias |-> None, key_id |-> None, state |-> PyStr("present"), description |-> None,
     enabled |-> PyBool(TRUE), multi_region |-> PyBool(FALSE),
     enable_key_rotation |-> None, key_spec |-> PyStr("SYMMETRIC_DEFAULT"),
     key_usage |-> PyStr("ENCRYPT_DECRYPT"), pending_window |-> None, policy |-> None,
     grants |-> None, purge_grants |-> PyBool(FALSE), tags |-> None, region |-> None]

KMSDomain ==
    [alias |-> OptStr, key_id |-> OptStr, state |-> States, description |-> OptStr,
     enabled |-> Bools, multi_region |-> Bools, enable_key_rotation |-> OptBool,
     key_spec |-> {PyStr("SYMMETRIC_DEFAULT"), PyStr("RSA_2048")},
     key_usage |-> {PyStr("ENCRYPT_DECRYPT"), PyStr("SIGN_VERIFY")},
     pending_window |-> OptInt, policy |-> OptDict, grants |-> OptList,
     purge_grants |-> Bools, tags |-> OptDict, region |-> OptStr]

\* enable_key_rotation and pending_window are tested against None
KMSRotation(r) ==
    Assign(<<Opt(IsNotNone(r.enable_key_rotation), "enable_key_rotation", r.enable_key_rotation),
             Opt(IsNotNone(r.pending_window), "pending_window", r.pending_window)>>)

KMSKeyArgs(r) ==
      Assign(<<
        [state |-> r.state, enabled |-> r.enabled, multi_region |-> r.multi_region,
         key_spec |-> r.key_spec, key_usage |-> r.key_usage,
         purge_grants |-> r.purge_grants],
        Opt(Truthy(r.alias), "alias", r.alias),
        Opt(Truthy(r.key_id), "key_id", r.key_id),
        Opt(Truthy(r.description), "description", r.description),
        KMSRotation(r),
        Opt(Truthy(r.policy), "policy", r.policy),
        Opt(Truthy(r.grants), "grants", r.grants),
        Tags(r),
        Region(r)>>)

\* ------------------------------------------------------------- DynamoDBTable
DynamoDefaults ==
    [name |-> StrVal(1), state |-> PyStr("present"), billing_mode |-> PyStr("PAY_PER_REQUEST"),
     hash_key_name |-> None, hash_key_type |-> PyStr("S"), range_key_name |-> None,
     range_key_type |-> PyStr("S"), read_capacity |-> None, write_capacity |-> None,
     global_secondary_indexes |-> None, local_secondary_indexes |-> None,
     stream_specification |-> None, point_in_time_recovery |-> PyBool(TRUE),
     tags |-> None, wait |-> PyBool(TRUE), wait_timeout |-> PyInt(600), region |-> None]

KeyTypes == {PyStr("S"), PyStr("N")}

DynamoDomain ==
    [name |-> Strings, state |-> States,
     billing_mode |-> {PyStr("PAY_PER_REQUEST"), PyStr("PROVISIONED")},
     hash_key_name |-> OptStr, hash_key_type |-> KeyTypes, range_key_name |-> OptStr,
     range_key_type |-> KeyTypes, read_capacity |-> OptInt, write_capacity |-> OptInt,
     global_secondary_indexes |-> OptList, local_secondary_indexes |-> OptList,
     stream_specification |-> OptDict, point_in_time_recovery |-> OptBool,
     tags |-> OptDict, wait |-> Bools, wait_timeout |-> {PyInt(600), PyInt(0)},
     region |-> OptStr]

AttributeDefinition(key_name, key_type) ==
    PyDict(<< <<"AttributeName", key_name>>, <<"AttributeType", key_type>> >>)

KeySchemaElement(key_name, role) ==
    PyDict(<< <<"AttributeName", key_name>>, <<"KeyType", PyStr(role)>> >>)

\* the attributes list after the two appends
DynamoAttributes(r) ==
    (IF Truthy(r.hash_key_name)
     THEN <<AttributeDefinition(r.hash_key_name, r.hash_key_type)>> ELSE <<>>)
    \o (IF Truthy(r.range_key_name)
        THEN <<AttributeDefinition(r.range_key_name, r.range_key_type)>> ELSE <<>>)

\* DynamoKeySchema with the range key appended before the hash key
DynamoKeySchemaRangeFirst(r) ==
    (IF Truthy(r.range_key_name)
     THEN <<KeySchemaElement(r.range_key_name, "RANGE")>> ELSE <<>>)
    \o (IF Truthy(r.hash_key_name)
        THEN <<KeySchemaElement(r.hash_key_name, "HASH")>> ELSE <<>>)

\* the key_schema list after the two appends
DynamoKeySchema(r) ==
    (IF Truthy(r.hash_key_name) THEN <<KeySchemaElement(r.hash_key_name, "HASH")>> ELSE <<>>)
    \o (IF Truthy(r.range_key_name)
        THEN <<KeySchemaElement(r.range_key_name, "RANGE")>> ELSE <<>>)

\* DynamoKeyLists storing both lists whether or not they are empty
DynamoKeyListsAlways(r) ==
    [attributes |-> PyList(DynamoAttributes(r)), key_schema |-> PyList(DynamoKeySchema(r))]

\* the lists are stored only when non-empty
DynamoKeyLists(r) ==
    Assign(<<Opt(Truthy(PyList(DynamoAttributes(r))), "attributes", PyList(DynamoAttributes(r))),
             Opt(Truthy(PyList(DynamoKeySchema(r))), "key_schema", PyList(DynamoKeySchema(r)))>>)

\* DynamoCapacity without the billing_mode test
DynamoCapacityAnyMode(r) ==
    Assign(<<Opt(Truthy(r.read_capacity), "read_capacity", r.read_capacity),
             Opt(Truthy(r.write_capacity), "write_capacity", r.write_capacity)>>)

\* capacity settings, for provisioned billing only
DynamoCapacity(r) ==
    IF r.billing_mode = PyStr("PROVISIONED")
    THEN Assign(<<Opt(Truthy(r.read_capacity), "read_capacity", r.read_capacity),
                  Opt(Truthy(r.write_capacity), "write_capacity", r.write_capacity)>>)
    ELSE EmptyMap

DynamoDBTableArgs(r) ==
      Assign(<<
        [name |-> r.name, state |-> r.state, billing_mode |-> r.billing_mode,
         wait |-> r.wait, wait_timeout |-> r.wait_timeout],
        DynamoKeyLists(r),
        DynamoCapacity(r),
        Opt(Truthy(r.global_secondary_indexes), "global_indexes", r.global_secondary_indexes),
        Opt(Truthy(r.local_secondary_indexes), "local_indexes", r.local_secondary_indexes),
        Opt(Truthy(r.stream_specification), "stream_specification", r.stream_specification),
        Opt(IsNotNone(r.point_in_time_recovery), "point_in_time_recovery", r.point_in_time_recovery),
        Tags(r),
        Region(r)>>)

\* ----------------------------------------------------------------- VPCSubnet
SubnetDefaults ==
    [vpc_id |-> StrVal(1), cidr |-> StrVal(1), state |-> PyStr("present"),
     availability_zone |-> None, az |-> None, map_public |-> PyBool(FALSE),
     assign_instances_ipv6 |-> PyBool(FALSE), ipv6_cidr |-> None, outpost_arn |-> None,
     tags |-> None, purge_tags |-> PyBool(TRUE), wait |-> PyBool(TRUE),
     wait_timeout |-> PyInt(300), region |-> None]

SubnetDomain ==
    [vpc_id |-> Strings, cidr |-> Strings, state |-> States, availability_zone |-> OptStr,
     az |-> OptStr, map_public |-> Bools, assign_instances_ipv6 |-> Bools,
     ipv6_cidr |-> OptStr, outpost_arn |-> OptStr, tags |-> OptDict, purge_tags |-> Bools,
     wait |-> Bools, wait_timeout |-> {PyInt(300), PyInt(0)}, region |-> OptStr]

\* SubnetZone with the operands swapped: availability_zone or az
SubnetZoneLongFirst(r) ==
    LET az_value == Or(r.availability_zone, r.az)
    IN  Opt(Truthy(az_value), "az", az_value)

\* az_value = az or availability_zone
SubnetZone(r) ==
    LET az_value == Or(r.az, r.availability_zone)
    IN  Opt(Truthy(az_value), "az", az_value)

VPCSubnetArgs(r) ==
      Assign(<<
        [vpc_id |-> r.vpc_id, cidr |-> r.cidr, state |-> r.state,
         map_public |-> r.map_public, assign_instances_ipv6 |-> r.assign_instances_ipv6,
         purge_tags |-> r.purge_tags, wait |-> r.wait, wait_timeout |-> r.wait_timeout],
        SubnetZone(r),
        Opt(Truthy(r.ipv6_cidr), "ipv6_cidr", r.ipv6_cidr),
        Opt(Truthy(r.outpost_arn), "outpost_arn", r.outpost_arn),
        Tags(r),
        Region(r)>>)

\* ----------------------------------------------------------------------- VPC
VPCDefaults ==
    [name |-> StrVal(1), cidr_block |-> StrVal(1), state |-> PyStr("present"),
     dns_hostnames |-> PyBool(TRUE), dns_support |-> PyBool(TRUE),
     instance_tenancy |-> PyStr("default"), multi_ok |-> PyBool(FALSE),
     purge_cidrs |-> PyBool(FALSE), tags |-> None, purge_tags |-> PyBool(TRUE),
     dhcp_opts_id |-> None, region |-> None]

VPCDomain ==
    [name |-> Strings, cidr_block |-> Strings, state |-> States, dns_hostnames |-> Bools,
     dns_support |-> Bools, instance_tenancy |-> {PyStr("default"), PyStr("dedicated")},
     multi_ok |-> Bools, purge_cidrs |-> Bools, tags |-> OptDict, purge_tags |-> Bools,
     dhcp_opts_id |-> OptStr, region |-> OptStr]

VPCArgs(r) ==
      Assign(<<
        [name |-> r.name, cidr_block |-> r.cidr_block, state |-> r.state,
         dns_hostnames |-> r.dns_hostnames, dns_support |-> r.dns_support,
         tenancy |-> r.instance_tenancy, multi_ok |-> r.multi_ok,
         purge_cidrs |-> r.purge_cidrs, purge_tags |-> r.purge_tags],
        Tags(r),
        Opt(Truthy(r.dhcp_opts_id), "dhcp_opts_id", r.dhcp_opts_id),
        Region(r)>>)

\* -------------------------------------------------------------- ACMPrivateCA
CADefaults ==
    [state |-> PyStr("present"), ca_type |-> PyStr("ROOT"), key_algorithm |-> PyStr("RSA_2048"),
     signing_algorithm |-> PyStr("SHA256WITHRSA"), subject |-> None,
     validity_period |-> None, usage_mode |-> PyStr("GENERAL_PURPOSE"), tags |-> None,
     ca_certificate |-> None, ca_certificate_chain |-> None, region |-> None]

CADomain ==
    [state |-> States, ca_type |-> {PyStr("ROOT"), PyStr("SUBORDINATE")},
     key_algorithm |-> {PyStr("RSA_2048"), PyStr("RSA_4096")},
     signing_algorithm |-> {PyStr("SHA256WITHRSA"), PyStr("SHA512WITHRSA")},
     subject |-> OptDict, validity_period |-> OptDict,
     usage_mode |-> {PyStr("GENERAL_PURPOSE"), PyStr("SHORT_LIVED_CERTIFICATE")},
     tags |-> OptDict, ca_certificate |-> OptStr, ca_certificate_chain |-> OptStr,
     region |-> OptStr]

\* CADefaultSubject as one dictionary shared by all calls, which a call empties
CADefaultSubjectShared ==
    IF earlier = NoCall
    THEN PyDict(<< <<"Country", PyStr("US")>>, <<"Organization", PyStr("Red Hat Inc")>>,
                   <<"OrganizationalUnit", PyStr("Ansible Analytics")>>,
                   <<"CommonName", PyStr("AAP Metrics CA")>> >>)
    ELSE PyDict(<<>>)

\* the dictionary literal built when subject is None
CADefaultSubject ==
    PyDict(<< <<"Country", PyStr("US")>>, <<"Organization", PyStr("Red Hat Inc")>>,
              <<"OrganizationalUnit", PyStr("Ansible Analytics")>>,
              <<"CommonName", PyStr("AAP Metrics CA")>> >>)

\* the dictionary literal built when validity_period is None
CADefaultValidity == PyDict(<< <<"Type", PyStr("YEARS")>>, <<"Value", PyInt(10)>> >>)

\* subject and validity are always stored; the default replaces None only
CASubjectValidity(r) ==
    [subject |-> IF r.subject = None THEN CADefaultSubject ELSE r.subject,
     validity |-> IF r.validity_period = None THEN CADefaultValidity ELSE r.validity_period]

ACMPrivateCAArgs(r) ==
      Assign(<<
        [state |-> r.state, type |-> r.ca_type, key_algorithm |-> r.key_algorithm,
         signing_algorithm |-> r.signing_algorithm, usage_mode |-> r.usage_mode],
        CASubjectValidity(r),
        Tags(r),
        Opt(Truthy(r.ca_certificate), "certificate", r.ca_certificate),
        Opt(Truthy(r.ca_certificate_chain), "certificate_chain", r.ca_certificate_chain),
        Region(r)>>)

\* ----------------------------------------------------------- CloudWatchAlarm
AlarmDefaults ==
    [name |-> StrVal(1), state |-> PyStr("present"), metric_name |-> None, namespace |-> None,
     statistic |-> None, comparison |-> None, threshold |-> None, period |-> None,
     evaluation_periods |-> None, unit |-> None, description |-> None, dimensions |-> None,
     alarm_actions |-> None, ok_actions |-> None, insufficient_data_actions |-> None,
     treat_missing_data |-> None, evaluate_low_sample_count_percentile |-> None,
     datapoints_to_alarm |-> None, extended_statistic |-> None, metrics |-> None,
     tags |-> None, purge_tags |-> PyBool(TRUE), region |-> None]

AlarmDomain ==
    [name |-> Strings, state |-> States, metric_name |-> OptStr, namespace |-> OptStr,
     statistic |-> OptStr, comparison |-> OptStr, threshold |-> OptInt, period |-> OptInt,
     evaluation_periods |-> OptInt, unit |-> OptStr, description |-> OptStr,
     dimensions |-> OptDict, alarm_actions |-> OptList, ok_actions |-> OptList,
     insufficient_data_actions |-> OptList, treat_missing_data |-> OptStr,
     evaluate_low_sample_count_percentile |-> OptStr, datapoints_to_alarm |-> OptInt,
     extended_statistic |-> OptStr, metrics |-> OptList, tags |-> OptDict,
     purge_tags |-> Bools, region |-> OptStr]

CloudWatchAlarmArgs(r) ==
      Assign(<<
        [name |-> r.name, state |-> r.state, purge_tags |-> r.purge_tags],
        Opt(Truthy(r.metric_name), "metric_name", r.metric_name),
        Opt(Truthy(r.namespace), "namespace", r.namespace),
        Opt(Truthy(r.statistic), "statistic", r.statistic),
        Opt(Truthy(r.extended_statistic), "extended_statistic", r.extended_statistic),
        Opt(Truthy(r.comparison), "comparison", r.comparison),
        Opt(IsNotNone(r.threshold), "threshold", r.threshold),
        Opt(Truthy(r.period), "period", r.period),
        Opt(Truthy(r.evaluation_periods), "evaluation_periods", r.evaluation_periods),
        Opt(Truthy(r.datapoints_to_alarm), "datapoints_to_alarm", r.datapoints_to_alarm),
        Opt(Truthy(r.unit), "unit", r.unit),
        Opt(Truthy(r.dimensions), "dimensions", r.dimensions),
        Opt(Truthy(r.description), "description", r.description),
        Opt(Truthy(r.alarm_actions), "alarm_actions", r.alarm_actions),
        Opt(Truthy(r.ok_actions), "ok_actions", r.ok_actions),
        Opt(Truthy(r.insufficient_data_actions), "insufficient_data_actions",
            r.insufficient_data_actions),
        Opt(Truthy(r.treat_missing_data), "treat_missing_data", r.treat_missing_data),
        Opt(Truthy(r.evaluate_low_sample_count_percentile),
            "evaluate_low_sample_count_percentile", r.evaluate_low_sample_count_percentile),
        Opt(Truthy(r.metrics), "metrics", r.metrics),
        Tags(r),
        Region(r)>>)

\* ------------------------------------------------------------------ LogGroup
LogGroupDefaults ==
    [log_group_name |-> StrVal(1), state |-> PyStr("present"), retention |-> None,
     kms_key_id |-> None, tags |-> None, purge_tags |-> PyBool(TRUE), region |-> None]

LogGroupDomain ==
    [log_group_name |-> Strings, state |-> States, retention |-> OptInt,
     kms_key_id |-> OptStr, tags |-> OptDict, purge_tags |-> Bools, region |-> OptStr]

CloudWatchLogsGroupArgs(r) ==
      Assign(<<
        [log_group_name |-> r.log_group_name, state |-> r.state, purge_tags |-> r.purge_tags],
        Opt(Truthy(r.retention), "retention", r.retention),
        Opt(Truthy(r.kms_key_id), "kms_key_id", r.kms_key_id),
        Tags(r),
        Region(r)>>)

\* ----------------------------------------------------------- InternetGateway
IGWDefaults ==
    [vpc_id |-> StrVal(1), state |-> PyStr("present"), tags |-> None,
     purge_tags |-> PyBool(TRUE), region |-> None]

IGWDomain ==
    [vpc_id |-> Strings, state |-> States, tags |-> OptDict, purge_tags |-> Bools,
     region |-> OptStr]

InternetGatewayArgs(r) ==
      Assign(<<
        [vpc_id |-> r.vpc_id, state |-> r.state, purge_tags |-> r.purge_tags],
        Tags(r),
        Region(r)>>)

\* ------------------------------------------------------------- SecurityGroup
SGDefaults ==
    [name |-> StrVal(1), description |-> StrVal(1), vpc_id |-> None,
     state |-> PyStr("present"), group_id |-> None, rules |-> None, rules_egress |-> None,
     purge_rules |-> PyBool(TRUE), purge_rules_egress |-> PyBool(TRUE),
     purge_tags |-> PyBool(TRUE), tags |-> None, region |-> None]

SGDomain ==
    [name |-> Strings, description |-> Strings, vpc_id |-> OptStr, state |-> States,
     group_id |-> OptStr, rules |-> OptList, rules_egress |-> OptList,
     purge_rules |-> Bools, purge_rules_egress |-> Bools, purge_tags |-> Bools,
     tags |-> OptDict, region |-> OptStr]

SecurityGroupArgs(r) ==
      Assign(<<
        [name |-> r.name, description |-> r.description, state |-> r.state,
         purge_rules |-> r.purge_rules, purge_rules_egress |-> r.purge_rules_egress,
         purge_tags |-> r.purge_tags],
        Opt(Truthy(r.vpc_id), "vpc_id", r.vpc_id),
        Opt(Truthy(r.group_id), "group_id", r.group_id),
        Opt(Truthy(r.rules), "rules", r.rules),
        Opt(Truthy(r.rules_egress), "rules_egress", r.rules_egress),
        Tags(r),
        Region(r)>>)

\* --------------------------------------------------- ApplicationLoadBalancer
ALBDefaults ==
    [name |-> StrVal(1), state |-> PyStr("present"), scheme |-> PyStr("internet-facing"),
     subnets |-> None, security_groups |-> None, ip_address_type |-> PyStr("ipv4"),
     type |-> PyStr("application"), deletion_protection |-> PyBool(FALSE),
     idle_timeout |-> None, access_logs_enabled |-> PyBool(FALSE),
     access_logs_s3_bucket |-> None, access_logs_s3_prefix |-> None, listeners |-> None,
     tags |-> None, wait |-> PyBool(TRUE), wait_timeout |-> PyInt(320),
     purge_listeners |-> PyBool(TRUE), purge_tags |-> PyBool(TRUE),
     enable_http2 |-> PyBool(TRUE), waf_fail_open |-> PyBool(FALSE), region |-> None]

ALBDomain ==
    [name |-> Strings, state |-> States,
     scheme |-> {PyStr("internet-facing"), PyStr("internal")}, subnets |-> OptList,
     security_groups |-> OptList, ip_address_type |-> {PyStr("ipv4"), PyStr("dualstack")},
     type |-> {PyStr("application")}, deletion_protection |-> Bools,
     idle_timeout |-> OptInt, access_logs_enabled |-> Bools,
     access_logs_s3_bucket |-> OptStr, access_logs_s3_prefix |-> OptStr,
     listeners |-> OptList, tags |-> OptDict, wait |-> Bools,
     wait_timeout |-> {PyInt(320), PyInt(0)}, purge_listeners |-> Bools,
     purge_tags |-> Bools, enable_http2 |-> Bools, waf_fail_open |-> Bools,
     region |-> OptStr]

\* ALBAccessLogs with the bucket and prefix stored outside the `if access_logs_enabled:`
ALBAccessLogsAnyMode(r) ==
    IF Truthy(r.access_logs_enabled) \/ Truthy(r.access_logs_s3_bucket)
           \/ Truthy(r.access_logs_s3_prefix)
    THEN "access_logs" :>
           PyDict((IF Truthy(r.access_logs_enabled)
                   THEN << <<"enabled", PyBool(TRUE)>> >> ELSE <<>>)
                  \o (IF Truthy(r.access_logs_s3_bucket)
                      THEN << <<"s3_bucket", r.access_logs_s3_bucket>> >> ELSE <<>>)
                  \o (IF Truthy(r.access_logs_s3_prefix)
                      THEN << <<"s3_prefix", r.access_logs_s3_prefix>> >> ELSE <<>>))
    ELSE EmptyMap

\* the access_logs object, built only when access logging is enabled
ALBAccessLogs(r) ==
    IF Truthy(r.access_logs_enabled)
    THEN "access_logs" :>
           PyDict(<< <<"enabled", PyBool(TRUE)>> >>
                  \o (IF Truthy(r.access_logs_s3_bucket)
                      THEN << <<"s3_bucket", r.access_logs_s3_bucket>> >> ELSE <<>>)
                  \o (IF Truthy(r.access_logs_s3_prefix)
                      THEN << <<"s3_prefix", r.access_logs_s3_prefix>> >> ELSE <<>>))
    ELSE EmptyMap

ApplicationLoadBalancerArgs(r) ==
      Assign(<<
        [name |-> r.name, state |-> r.state, scheme |-> r.scheme, type |-> r.type,
         ip_address_type |-> r.ip_address_type,
         deletion_protection |-> r.deletion_protection, wait |-> r.wait,
         wait_timeout |-> r.wait_timeout, purge_listeners |-> r.purge_listeners,
         purge_tags |-> r.purge_tags, enable_http2 |-> r.enable_http2,
         waf_fail_open |-> r.waf_fail_open],
        Opt(Truthy(r.subnets), "subnets", r.subnets),
        Opt(Truthy(r.security_groups), "security_groups", r.security_groups),
        Opt(IsNotNone(r.idle_timeout), "idle_timeout", r.idle_timeout),
        ALBAccessLogs(r),
        Opt(Truthy(r.listeners), "listeners", r.listeners),
        Tags(r),
        Region(r)>>)

\* ------------------------------------------------------------------- IAMRole
IAMRoleDefaults ==
    [name |-> StrVal(1), state |-> PyStr("present"), assume_role_policy_document |-> None,
     managed_policies |-> None, max_session_duration |-> None, path |-> PyStr("/"),
     description |-> None, permissions_boundary |-> None, tags |-> None,
     purge_tags |-> PyBool(TRUE), purge_policies |-> PyBool(TRUE),
     create_instance_profile |-> PyBool(TRUE), delete_instance_profile |-> PyBool(FALSE),
     wait |-> PyBool(TRUE), wait_timeout |-> PyInt(120), region |-> None]

IAMRoleDomain ==
    [name |-> Strings, state |-> States, assume_role_policy_document |-> OptDict,
     managed_policies |-> OptList, max_session_duration |-> OptInt,
     path |-> {PyStr("/"), StrVal(1)}, description |-> OptStr,
     permissions_boundary |-> OptStr, tags |-> OptDict, purge_tags |-> Bools,
     purge_policies |-> Bools, create_instance_profile |-> Bools,
     delete_instance_profile |-> Bools, wait |-> Bools,
     wait_timeout |-> {PyInt(120), PyInt(0)}, region |-> OptStr]

IAMRoleArgs(r) ==
      Assign(<<
        [name |-> r.name, state |-> r.state, path |-> r.path, purge_tags |-> r.purge_tags,
         purge_policies |-> r.purge_policies,
         create_instance_profile |-> r.create_instance_profile,
         delete_instance_profile |-> r.delete_instance_profile, wait |-> r.wait,
         wait_timeout |-> r.wait_timeout],
        Opt(Truthy(r.assume_role_policy_document), "assume_role_policy_document",
            r.assume_role_policy_document),
        Opt(Truthy(r.managed_policies), "managed_policies", r.managed_policies),
        Opt(Truthy(r.max_session_duration), "max_session_duration", r.max_session_duration),
        Opt(Truthy(r.description), "description", r.description),
        Opt(Truthy(r.permissions_boundary), "permissions_boundary", r.permissions_boundary),
        Tags(r),
        Region(r)>>)

\* ----------------------------------------------------------------- IAMPolicy
IAMPolicyDefaults ==
    [name |-> StrVal(1), state |-> PyStr("present"), policy |-> None, path |-> PyStr("/"),
     description |-> None, tags |-> None, purge_tags |-> PyBool(TRUE),
     only_version |-> PyBool(FALSE), region |-> None]

IAMPolicyDomain ==
    [name |-> Strings, state |-> States, policy |-> OptDict, path |-> {PyStr("/"), StrVal(1)},
     description |-> OptStr, tags |-> OptDict, purge_tags |-> Bools,
     only_version |-> Bools, region |-> OptStr]

IAMPolicyArgs(r) ==
      Assign(<<
        [name |-> r.name, state |-> r.state, path |-> r.path, purge_tags |-> r.purge_tags,
         only_version |-> r.only_version],
        Opt(Truthy(r.policy), "policy", r.policy),
        Opt(Truthy(r.description), "description", r.description),
        Tags(r),
        Region(r)>>)

\* ------------------------------------------------------------ ACMCertificate
ACMCertDefaults ==
    [name_tag |-> None, domain_name |-> None, certificate_arn |-> None,
     state |-> PyStr("present"), certificate |-> None, private_key |-> None,
     certificate_chain |-> None, tags |-> None, purge_tags |-> PyBool(TRUE),
     region |-> None]

ACMCertDomain ==
    [name_tag |-> OptStr, domain_name |-> OptStr, certificate_arn |-> OptStr,
     state |-> States, certificate |-> OptStr, private_key |-> OptStr,
     certificate_chain |-> OptStr, tags |-> OptDict, purge_tags |-> Bools,
     region |-> OptStr]

\* ACMCertificateSources as an if/elif chain: the body only without an ARN
ACMCertificateSourcesExclusive(r) ==
    IF Truthy(r.certificate_arn)
    THEN [certificate_arn |-> r.certificate_arn]
    ELSE Opt(Truthy(r.certificate), "certificate", r.certificate)

\* the ARN and the certificate body, each stored by its own if
ACMCertificateSources(r) ==
    Assign(<<Opt(Truthy(r.certificate_arn), "certificate_arn", r.certificate_arn),
             Opt(Truthy(r.certificate), "certificate", r.certificate)>>)

ACMCertificateArgs(r) ==
      Assign(<<
        [state |-> r.state, purge_tags |-> r.purge_tags],
        Opt(Truthy(r.name_tag), "name_tag", r.name_tag),
        Opt(Truthy(r.domain_name), "domain_name", r.domain_name),
        ACMCertificateSources(r),
        Opt(Truthy(r.private_key), "private_key", r.private_key),
        Opt(Truthy(r.certificate_chain), "certificate_chain", r.certificate_chain),
        Tags(r),
        Region(r)>>)

\* --------------------------------------------------- AAPCertificateGenerator
AAPDefaults ==
    [customer_id |-> StrVal(1), installation_id |-> StrVal(1), ca_arn |-> StrVal(1),
     key_size |-> PyInt(2048), validity_period |-> None,
     signing_algorithm |-> PyStr("SHA256WITHRSA"), subject_additional_fields |-> None,
     store_private_key |-> PyBool(FALSE), output_format |-> PyStr("pem"), region |-> None]

AAPDomain ==
    [customer_id |-> Strings, installation_id |-> Strings, ca_arn |-> Strings,
     key_size |-> {PyInt(2048), PyInt(4096)}, validity_period |-> OptDict,
     signing_algorithm |-> {PyStr("SHA256WITHRSA"), PyStr("SHA512WITHRSA")},
     subject_additional_fields |-> OptDict, store_private_key |-> Bools,
     output_format |-> {PyStr("pem"), PyStr("der")}, region |-> OptStr]

\* the dictionary literal stored when validity_period is falsy
AAPDefaultValidity == PyDict(<< <<"Type", PyStr("DAYS")>>, <<"Value", PyInt(730)>> >>)

\* the dictionary literal stored when subject_additional_fields is falsy
AAPDefaultSubjectFields ==
    PyDict(<< <<"Country", PyStr("US")>>, <<"Organization", PyStr("Red Hat Inc")>>,
              <<"OrganizationalUnit", PyStr("Ansible Analytics")>> >>)

\* AAPValiditySubject with `is None` tests in place of the truth tests
AAPValiditySubjectOnlyNone(r) ==
    [validity_period |->
        IF r.validity_period = None THEN AAPDefaultValidity ELSE r.validity_period,
     subject_additional_fields |->
        IF r.subject_additional_fields = None
        THEN AAPDefaultSubjectFields ELSE r.subject_additional_fields]

\* both fields are always stored; the default replaces any falsy value
AAPValiditySubject(r) ==
    [validity_period |->
        IF Truthy(r.validity_period) THEN r.validity_period ELSE AAPDefaultValidity,
     subject_additional_fields |->
        IF Truthy(r.subject_additional_fields)
        THEN r.subject_additional_fields ELSE AAPDefaultSubjectFields]

AAPCertificateGeneratorArgs(r) ==
      Assign(<<
        [customer_id |-> r.customer_id, installation_id |-> r.installation_id,
         ca_arn |-> r.ca_arn, key_size |-> r.key_size,
         signing_algorithm |-> r.signing_algorithm,
         store_private_key |-> r.store_private_key, output_format |-> r.output_format],
        AAPValiditySubject(r),
        Region(r)>>)

\* -------------------------------------------------------------- LambdaPolicy
LambdaPolicyDefaults ==
    [function_name |-> StrVal(1), state |-> PyStr("present"), alias |-> None,
     version |-> None, statement_id |-> None, action |-> None, principal |-> None,
     source_arn |-> None, source_account |-> None, event_source_token |-> None,
     qualifier |-> None, region |-> None]

LambdaPolicyDomain ==
    [function_name |-> Strings, state |-> States, alias |-> OptStr, version |-> OptInt,
     statement_id |-> OptStr, action |-> OptStr, principal |-> OptStr,
     source_arn |-> OptStr, source_account |-> OptStr, event_source_token |-> OptStr,
     qualifier |-> OptStr, region |-> OptStr]

\* LambdaPolicyQualifier with two independent ifs in place of the if/elif
LambdaPolicyQualifierIndependent(r) ==
    Assign(<<Opt(Truthy(r.alias), "alias", r.alias),
             Opt(Truthy(r.version), "version", r.version)>>)

\* alias or, failing that, version
LambdaPolicyQualifier(r) ==
    IF Truthy(r.alias) THEN "alias" :> r.alias
    ELSE IF Truthy(r.version) THEN "version" :> r.version
    ELSE EmptyMap

LambdaPolicyArgs(r) ==
      Assign(<<
        [function_name |-> r.function_name, state |-> r.state],
        LambdaPolicyQualifier(r),
        Opt(Truthy(r.statement_id), "statement_id", r.statement_id),
        Opt(Truthy(r.action), "action", r.action),
        Opt(Truthy(r.principal), "principal", r.principal),
        Opt(Truthy(r.source_arn), "source_arn", r.source_arn),
        Opt(Truthy(r.source_account), "source_account", r.source_account),
        Opt(Truthy(r.event_source_token), "event_source_token", r.event_source_token),
        Opt(Truthy(r.qualifier), "qualifier", r.qualifier),
        Region(r)>>)

\* ------------------------------------------------------------- the tool set
\* each tool is named by its module attribute
Tools ==
    {"lambda", "lambda_policy", "dynamodb_table", "cloudwatch_metric_alarm",
     "cloudwatchlogs_log_group", "ec2_security_group", "ec2_vpc_igw", "ec2_vpc_net",
     "ec2_vpc_subnet", "elb_application_lb", "aap_certificate_generator",
     "acm_certificate", "acm_private_ca", "iam_policy", "iam_role", "kms_key", "s3_bucket"}

\* the signature defaults of a tool's __call__
Defaults(t) ==
    CASE t = "lambda" -> LambdaDefaults
      [] t = "lambda_policy" -> LambdaPolicyDefaults
      [] t = "dynamodb_table" -> DynamoDefaults
      [] t = "cloudwatch_metric_alarm" -> AlarmDefaults
      [] t = "cloudwatchlogs_log_group" -> LogGroupDefaults
      [] t = "ec2_security_group" -> SGDefaults
      [] t = "ec2_vpc_igw" -> IGWDefaults
      [] t = "ec2_vpc_net" -> VPCDefaults
      [] t = "ec2_vpc_subnet" -> SubnetDefaults
      [] t = "elb_application_lb" -> ALBDefaults
      [] t = "aap_certificate_generator" -> AAPDefaults
      [] t = "acm_certificate" -> ACMCertDefaults
      [] t = "acm_private_ca" -> CADefaults
      [] t = "iam_policy" -> IAMPolicyDefaults
      [] t = "iam_role" -> IAMRoleDefaults
      [] t = "kms_key" -> KMSDefaults
      [] t = "s3_bucket" -> S3Defaults

\* the requests a caller makes of a tool
Requests(t) ==
    CASE t = "lambda" ->
            RequestsOf(LambdaDefaults, LambdaDomain,
                       {LambdaCodeFields, {"package_type", "runtime", "handler"}, {"state", "zip_file"}})
      [] t = "lambda_policy" ->
            RequestsOf(LambdaPolicyDefaults, LambdaPolicyDomain,
                       {{"alias", "version"}})
      [] t = "dynamodb_table" ->
            RequestsOf(DynamoDefaults, DynamoDomain,
                       {{"billing_mode", "read_capacity", "write_capacity"}, {"hash_key_name", "hash_key_type", "range_key_name", "range_key_type"}})
      [] t = "cloudwatch_metric_alarm" ->
            RequestsOf(AlarmDefaults, AlarmDomain,
                       {{"threshold", "period"}})
      [] t = "cloudwatchlogs_log_group" -> RequestsOf(LogGroupDefaults, LogGroupDomain, {})
      [] t = "ec2_security_group" -> RequestsOf(SGDefaults, SGDomain, {})
      [] t = "ec2_vpc_igw" -> RequestsOf(IGWDefaults, IGWDomain, {})
      [] t = "ec2_vpc_net" -> RequestsOf(VPCDefaults, VPCDomain, {})
      [] t = "ec2_vpc_subnet" ->
            RequestsOf(SubnetDefaults, SubnetDomain,
                       {{"az", "availability_zone"}})
      [] t = "elb_application_lb" ->
            RequestsOf(ALBDefaults, ALBDomain,
                       {{"access_logs_enabled", "access_logs_s3_bucket", "access_logs_s3_prefix"}})
      [] t = "aap_certificate_generator" ->
            RequestsOf(AAPDefaults, AAPDomain,
                       {{"validity_period", "subject_additional_fields"}})
      [] t = "acm_certificate" ->
            RequestsOf(ACMCertDefaults, ACMCertDomain,
                       {{"certificate_arn", "certificate"}})
      [] t = "acm_private_ca" ->
            RequestsOf(CADefaults, CADomain,
                       {{"subject", "validity_period"}})
      [] t = "iam_policy" -> RequestsOf(IAMPolicyDefaults, IAMPolicyDomain, {})
      [] t = "iam_role" -> RequestsOf(IAMRoleDefaults, IAMRoleDomain, {})
      [] t = "kms_key" ->
            RequestsOf(KMSDefaults, KMSDomain,
                       {{"enable_key_rotation", "pending_window"}})
      [] t = "s3_bucket" ->
            RequestsOf(S3Defaults, S3Domain,
                       {{"versioning", "accelerate", "tags"}})

\* the keys a caller can pass through **kwargs: no parameter name binds there
OverflowKeys(t) ==
    CASE t = "lambda" -> {"extra_field", "environment_variables"}
      [] t = "lambda_policy" -> {"extra_field"}
      [] t = "dynamodb_table" ->
            {"extra_field", "attributes", "key_schema", "global_indexes"}
      [] t = "cloudwatch_metric_alarm" -> {"extra_field"}
      [] t = "cloudwatchlogs_log_group" -> {"extra_field"}
      [] t = "ec2_security_group" -> {"extra_field"}
      [] t = "ec2_vpc_igw" -> {"extra_field"}
      [] t = "ec2_vpc_net" -> {"extra_field", "tenancy"}
      [] t = "ec2_vpc_subnet" -> {"extra_field"}
      [] t = "elb_application_lb" -> {"extra_field", "access_logs"}
      [] t = "aap_certificate_generator" -> {"extra_field"}
      [] t = "acm_certificate" -> {"extra_field"}
      [] t = "acm_private_ca" -> {"extra_field", "validity", "certificate"}
      [] t = "iam_policy" -> {"extra_field"}
      [] t = "iam_role" -> {"extra_field"}
      [] t = "kms_key" -> {"extra_field"}
      [] t = "s3_bucket" -> {"extra_field", "accelerate_enabled", "public_access"}

\* the module_args a tool's __call__ has built from its named parameters, before
\* the kwargs are merged
NamedArgs(t, r) ==
    CASE t = "lambda" -> LambdaFunctionArgs(r)
      [] t = "lambda_policy" -> LambdaPolicyArgs(r)
      [] t = "dynamodb_table" -> DynamoDBTableArgs(r)
      [] t = "cloudwatch_metric_alarm" -> CloudWatchAlarmArgs(r)
      [] t = "cloudwatchlogs_log_group" -> CloudWatchLogsGroupArgs(r)
      [] t = "ec2_security_group" -> SecurityGroupArgs(r)
      [] t = "ec2_vpc_igw" -> InternetGatewayArgs(r)
      [] t = "ec2_vpc_net" -> VPCArgs(r)
      [] t = "ec2_vpc_subnet" -> VPCSubnetArgs(r)
      [] t = "elb_application_lb" -> ApplicationLoadBalancerArgs(r)
      [] t = "aap_certificate_generator" -> AAPCertificateGeneratorArgs(r)
      [] t = "acm_certificate" -> ACMCertificateArgs(r)
      [] t = "acm_private_ca" -> ACMPrivateCAArgs(r)
      [] t = "iam_policy" -> IAMPolicyArgs(r)
      [] t = "iam_role" -> IAMRoleArgs(r)
      [] t = "kms_key" -> KMSKeyArgs(r)
      [] t = "s3_bucket" -> S3BucketArgs(r)

\* the keyword dictionaries a caller passes to a tool
Kwargs(t) == KwargsOver(OverflowKeys(t))

\* ------------------------------------------------------------ one invocation
\* what the module runner returns
Outputs == {"output1", "output2"}
NoOutput == "none"

\* what the module runner raises
ModuleErrors == {<<"error", "error1">>, <<"error", "error2">>}
NoError == <<"none">>

\* an exception raised from another one, naming the tool
WrappedError(t, e) == <<"wrapped", t, e>>

\* the method of the context a tool runs its module with
RunnerMethod(t) ==
    IF t \in {"cloudwatch_metric_alarm", "ec2_vpc_igw", "ec2_vpc_net", "iam_policy"}
    THEN "run_module_locally"
    ELSE "run_module"

Init ==
    /\ pc = "idle"
    /\ tool = "none"
    /\ req = EmptyMap
    /\ kwargs = EmptyMap
    /\ module_args = EmptyMap
    /\ runner = <<>>
    /\ output = NoOutput
    /\ result = NoOutput
    /\ error = NoError
    /\ events = <<>>
    /\ earlier = NoCall
    /\ aws_config = NoConfig
    /\ sessions = <<>>
    /\ access = NoAccess

\* the caller invokes tool t; __call__ starts with display_tool(...)
Enter(t, r, kw) ==
    /\ pc = "idle"
    /\ pc' = "displayed"
    /\ tool' = t
    /\ req' = r
    /\ kwargs' = kw
    /\ module_args' = EmptyMap
    /\ runner' = <<>>
    /\ output' = NoOutput
    /\ result' = NoOutput
    /\ error' = NoError
    /\ events' = <<<<"display_tool", t>>>>

Call ==
    /\ pc = "idle"
    /\ \E t \in Tools : \E r \in Requests(t) : \E kw \in Kwargs(t) : Enter(t, r, kw)
    /\ UNCHANGED <<earlier, aws_config, sessions, access>>

\* module_args = {...} and the named-field rules that follow it
Assemble ==
    /\ pc = "displayed"
    /\ pc' = "assembled"
    /\ module_args' = NamedArgs(tool, req)
    /\ UNCHANGED <<tool, req, kwargs, runner, output, result, error, events, earlier,
                 aws_config, sessions, access>>

\* module_args.update(kwargs)
Merge ==
    /\ pc = "assembled"
    /\ pc' = "merged"
    /\ module_args' = Update(module_args, kwargs)
    /\ UNCHANGED <<tool, req, kwargs, runner, output, result, error, events, earlier,
                 aws_config, sessions, access>>

\* RunModule placed before module_args.update(kwargs): the runner gets the named fields only
RunModuleUnmerged ==
    /\ pc = "assembled"
    /\ pc' = "ran"
    /\ events' = Append(events, <<RunnerMethod(tool), tool>>)
    /\ \E o \in Outputs :
          /\ runner' = Append(runner, [module |-> tool, args |-> module_args, returned |-> o])
          /\ output' = o
    /\ UNCHANGED <<tool, req, kwargs, module_args, result, error, earlier,
                 aws_config, sessions, access>>

\* output = self.context.run_module(self.module, **module_args), returning
RunModule ==
    /\ pc = "merged"
    /\ pc' = "ran"
    /\ events' = Append(events, <<RunnerMethod(tool), tool>>)
    /\ \E o \in Outputs :
          /\ runner' = Append(runner, [module |-> tool, args |-> module_args, returned |-> o])
          /\ output' = o
    /\ UNCHANGED <<tool, req, kwargs, module_args, result, error, earlier,
                 aws_config, sessions, access>>

\* RunModuleRaises inside a try whose except clause goes on without a result
RunModuleRaisesSwallowed ==
    /\ pc = "merged"
    /\ pc' = "ran"
    /\ events' = Append(events, <<RunnerMethod(tool), tool>>)
    /\ \E e \in ModuleErrors :
          runner' = Append(runner, [module |-> tool, args |-> module_args, raised |-> e])
    /\ UNCHANGED <<tool, req, kwargs, module_args, output, result, error, earlier,
                 aws_config, sessions, access>>

\* the module runner raises: nothing in __call__ catches, the exception leaves the call
RunModuleRaises ==
    /\ pc = "merged"
    /\ pc' = "raised"
    /\ events' = Append(events, <<RunnerMethod(tool), tool>>)
    /\ \E e \in ModuleErrors :
          /\ runner' = Append(runner, [module |-> tool, args |-> module_args, raised |-> e])
          /\ error' = e
    /\ UNCHANGED <<tool, req, kwargs, module_args, output, result, earlier,
                 aws_config, sessions, access>>

\* display_results(output, ...)
DisplayResults ==
    /\ pc = "ran"
    /\ pc' = "shown"
    /\ events' = Append(events, <<"display_results", output>>)
    /\ UNCHANGED <<tool, req, kwargs, module_args, runner, output, result, error, earlier,
                 aws_config, sessions, access>>

\* Return as `return display_results(...)`: the caller gets what the display returns
ReturnDisplayed ==
    /\ pc = "shown"
    /\ pc' = "returned"
    /\ result' = NoOutput
    /\ UNCHANGED <<tool, req, kwargs, module_args, runner, output, error, events, earlier,
                 aws_config, sessions, access>>

\* return output
Return ==
    /\ pc = "shown"
    /\ pc' = "returned"
    /\ result' = output
    /\ UNCHANGED <<tool, req, kwargs, module_args, runner, output, error, events, earlier,
                 aws_config, sessions, access>>

\* the call is over (returned or raised); its locals are gone
Leave ==
    /\ pc \in {"returned", "raised"}
    /\ pc' = "idle"
    /\ tool' = "none"
    /\ req' = EmptyMap
    /\ kwargs' = EmptyMap
    /\ module_args' = EmptyMap
    /\ runner' = <<>>
    /\ output' = NoOutput
    /\ result' = NoOutput
    /\ error' = NoError
    /\ events' = <<>>
    /\ UNCHANGED <<earlier, aws_config, sessions, access>>

Next ==
    \/ Call
    \/ Assemble
    \/ Merge
    \/ RunModule
    \/ RunModuleRaises
    \/ DisplayResults
    \/ Return
    \/ Leave

Spec == Init /\ [][Next]_vars

\* ------------------------------------------------ vocabulary of the properties
\* the module runner has been invoked in the current call
Handed == Len(runner) > 0

\* the argument map the module runner received
HandedArgs == runner[1].args

\* the parameters of a tool whose signature default is None
OptionalParams(t) == {p \in DOMAIN Defaults(t) : Defaults(t)[p] = None}

\* the key of module_args a parameter is stored under
CanonicalKey(t, p) ==
    CASE t = "lambda" /\ p = "environment" -> "environment_variables"
      [] t = "dynamodb_table" /\ p = "global_secondary_indexes" -> "global_indexes"
      [] t = "dynamodb_table" /\ p = "local_secondary_indexes" -> "local_indexes"
      [] t = "s3_bucket" /\ p = "public_access_block" -> "public_access"
      [] t = "s3_bucket" /\ p = "accelerate" -> "accelerate_enabled"
      [] t = "ec2_vpc_net" /\ p = "instance_tenancy" -> "tenancy"
      [] t = "ec2_vpc_subnet" /\ p = "availability_zone" -> "az"
      [] t = "acm_private_ca" /\ p = "ca_type" -> "type"
      [] t = "acm_private_ca" /\ p = "validity_period" -> "validity"
      [] t = "acm_private_ca" /\ p = "ca_certificate" -> "certificate"
      [] t = "acm_private_ca" /\ p = "ca_certificate_chain" -> "certificate_chain"
      [] OTHER -> p

\* the None-default parameters a tool replaces by a computed default
ComputedDefaultParams(t) ==
    CASE t = "acm_private_ca" -> {"subject", "validity_period"}
      [] t = "aap_certificate_generator" -> {"validity_period", "subject_additional_fields"}
      [] OTHER -> {}

\* the parameters of a tool stored under the same key as p (p and its aliases)
Aliases(t, p) == {q \in DOMAIN Defaults(t) : CanonicalKey(t, q) = CanonicalKey(t, p)}

\* ------------------------------------------------------------------------ C1
\* C1 as stated: for every tool and every parameter whose default is None, when the
\* caller passes None and kwargs does not carry the field's key, the map handed to
\* the module runner has no key for that field.
OmitIfAbsentEveryOptional ==
    Handed =>
      \A p \in OptionalParams(tool) :
         (req[p] = None /\ CanonicalKey(tool, p) \notin DOMAIN kwargs)
            => CanonicalKey(tool, p) \notin DOMAIN HandedArgs

\* C1 amended: the same, for every None-default parameter that has no computed
\* default (the private CA's subject and validity_period and the certificate
\* generator's validity_period and subject_additional_fields are always stored),
\* and with a field that has two parameter names (the subnet's az and
\* availability_zone) counted absent when both are None.
OmitIfAbsent ==
    Handed =>
      \A p \in OptionalParams(tool) \ ComputedDefaultParams(tool) :
         (/\ \A q \in Aliases(tool, p) : req[q] = None
          /\ CanonicalKey(tool, p) \notin DOMAIN kwargs)
            => CanonicalKey(tool, p) \notin DOMAIN HandedArgs

\* a Lambda call without runtime but with a handler: only the handler is stored
OmitIfAbsentWitness ==
    /\ Handed
    /\ tool = "lambda"
    /\ req.runtime = None
    /\ Truthy(req.handler)
    /\ "handler" \in DOMAIN HandedArgs
    /\ "runtime" \notin DOMAIN HandedArgs

\* ------------------------------------------------------------------------ C2
\* C2: S3 versioning, Lambda reserved_concurrency and KMS enable_key_rotation are
\* stored with the caller's value whenever it is not None, False and 0 included,
\* and are absent exactly when it is None.
KeptUnlessNone(p) ==
    /\ (p \in DOMAIN HandedArgs) <=> (req[p] # None)
    /\ req[p] # None => HandedArgs[p] = req[p]

ExplicitFalsePreserved ==
    Handed =>
      /\ tool = "s3_bucket" => KeptUnlessNone("versioning")
      /\ tool = "lambda" => KeptUnlessNone("reserved_concurrency")
      /\ tool = "kms_key" => KeptUnlessNone("enable_key_rotation")

\* an S3 call with versioning=False hands over versioning: False
ExplicitFalseWitness ==
    /\ Handed
    /\ tool = "s3_bucket"
    /\ req.versioning = PyBool(FALSE)
    /\ "versioning" \in DOMAIN HandedArgs
    /\ HandedArgs["versioning"] = PyBool(FALSE)

\* ------------------------------------------------------------------------ C3
\* C3: the Lambda code sources are tried in the order zip_file, (s3_bucket, s3_key),
\* image_uri: a supplied zip_file is stored and keeps s3_bucket and s3_key out; a
\* complete S3 pair without zip_file is stored and keeps image_uri out; image_uri is
\* stored when neither of the former is there.
CodeSourcePriority ==
    (Handed /\ tool = "lambda") =>
      LET a == HandedArgs
          zip == Truthy(req.zip_file)
          s3 == Truthy(req.s3_bucket) /\ Truthy(req.s3_key)
      IN  /\ zip => /\ "zip_file" \in DOMAIN a
                    /\ a["zip_file"] = req.zip_file
                    /\ "s3_bucket" \notin DOMAIN a
                    /\ "s3_key" \notin DOMAIN a
          /\ (~zip /\ s3) => /\ {"s3_bucket", "s3_key"} \subseteq DOMAIN a
                             /\ "image_uri" \notin DOMAIN a
          /\ (~zip /\ ~s3 /\ Truthy(req.image_uri)) => "image_uri" \in DOMAIN a

\* zip_file, s3_bucket and s3_key all supplied: only zip_file is handed over
CodeSourcePriorityWitness ==
    /\ Handed
    /\ tool = "lambda"
    /\ Truthy(req.zip_file) /\ Truthy(req.s3_bucket) /\ Truthy(req.s3_key)
    /\ "zip_file" \in DOMAIN HandedArgs
    /\ "s3_bucket" \notin DOMAIN HandedArgs

\* ------------------------------------------------------------------------ C4
\* the code-source alternative that wins for a request
CodeSourceWinner(r) ==
    IF Truthy(r.zip_file) THEN "zip"
    ELSE IF Truthy(r.s3_bucket) /\ Truthy(r.s3_key) THEN "s3"
    ELSE IF Truthy(r.image_uri) THEN "image"
    ELSE "none"

\* C4: for every combination of the five code-source parameters the handed map
\* holds exactly the fields of the first complete alternative (for the S3 pair also
\* s3_object_version when supplied), with the caller's values, and no field of any
\* other alternative.
CodeSourceExclusive ==
    (Handed /\ tool = "lambda") =>
      LET a == HandedArgs
          w == CodeSourceWinner(req)
          present == DOMAIN a \cap LambdaCodeFields
      IN  /\ w = "zip" => present = {"zip_file"}
          /\ w = "s3" => present = {"s3_bucket", "s3_key"} \cup
                            (IF Truthy(req.s3_object_version) THEN {"s3_object_version"} ELSE {})
          /\ w = "image" => present = {"image_uri"}
          /\ w = "none" => present = {}
          /\ \A k \in present : a[k] = req[k]

\* s3_bucket without s3_key next to an image_uri: the image alone is handed over
CodeSourceExclusiveWitness ==
    /\ Handed
    /\ tool = "lambda"
    /\ Truthy(req.s3_bucket) /\ ~Truthy(req.s3_key) /\ Truthy(req.s3_object_version)
    /\ Truthy(req.image_uri)
    /\ DOMAIN HandedArgs \cap LambdaCodeFields = {"image_uri"}

\* ------------------------------------------------------------------------ C5
\* a present Lambda function that names no complete code source
NoCodeSource ==
    /\ tool = "lambda"
    /\ req.state = PyStr("present")
    /\ CodeSourceWinner(req) = "none"

\* C5 as stated: a Lambda request with state present and no code source fails in
\* normalization, so the module runner is never invoked for it.
NoCodeSourceNeverRuns == NoCodeSource => ~Handed

\* C5 amended: such a request raises nothing in the tool; once the call is past
\* the merge the module runner has been invoked exactly once, with a map that holds
\* no code-source field, and the only error the call can end with is the runner's.
NoCodeSourcePassedOn ==
    NoCodeSource =>
      /\ error \in {NoError} \cup ModuleErrors
      /\ pc \in {"ran", "raised", "shown", "returned"} =>
            /\ Len(runner) = 1
            /\ runner[1].module = "lambda"
            /\ DOMAIN runner[1].args \cap LambdaCodeFields = {}

\* the runner got the source-less map and returned
NoCodeSourceWitness ==
    /\ NoCodeSource
    /\ pc = "returned"
    /\ Len(runner) = 1
    /\ result \in Outputs

\* ------------------------------------------------------------------------ C6
\* C6: the DynamoDB map holds read_capacity or write_capacity only if the caller
\* supplied that value and billing_mode is PROVISIONED, and then with the caller's
\* value; under PAY_PER_REQUEST neither key is there, supplied or not.
CapacityOnlyWhenProvisioned ==
    (Handed /\ tool = "dynamodb_table") =>
      /\ \A k \in {"read_capacity", "write_capacity"} :
            k \in DOMAIN HandedArgs =>
               /\ req[k] # None
               /\ req.billing_mode = PyStr("PROVISIONED")
               /\ HandedArgs[k] = req[k]
      /\ req.billing_mode = PyStr("PAY_PER_REQUEST") =>
            DOMAIN HandedArgs \cap {"read_capacity", "write_capacity"} = {}

\* read_capacity supplied under on-demand billing, and left out of the map
CapacityWitness ==
    /\ Handed
    /\ tool = "dynamodb_table"
    /\ req.billing_mode = PyStr("PAY_PER_REQUEST")
    /\ Truthy(req.read_capacity)
    /\ "read_capacity" \notin DOMAIN HandedArgs

\* ------------------------------------------------------------------------ C7
\* v is a list whose entries are dictionaries
IsEntryList(v) == v[1] = "list" /\ \A i \in 1..Len(v[2]) : v[2][i][1] = "dict"

\* the keys of a dictionary value
Keys(d) == {d[2][i][1] : i \in 1..Len(d[2])}

\* the value stored under key in the dictionary value d (None when there is none)
Item(d, key) ==
    IF \E i \in 1..Len(d[2]) : d[2][i][1] = key
    THEN d[2][CHOOSE i \in 1..Len(d[2]) : d[2][i][1] = key][2]
    ELSE None

\* the positions of the list value v whose entry has the given item
EntriesWith(v, key, value) == {i \in 1..Len(v[2]) : Item(v[2][i], key) = value}

\* what C7 says of the two lists the map a holds for the request r
KeyListsAsSupplied(a, r) ==
    LET hk == Truthy(r.hash_key_name)
        rk == Truthy(r.range_key_name)
        n == (IF hk THEN 1 ELSE 0) + (IF rk THEN 1 ELSE 0)
    IN  /\ (~hk /\ ~rk) => ("attributes" \notin DOMAIN a /\ "key_schema" \notin DOMAIN a)
        /\ (hk \/ rk) =>
             /\ {"attributes", "key_schema"} \subseteq DOMAIN a
             /\ IsEntryList(a["attributes"]) /\ IsEntryList(a["key_schema"])
             /\ Len(a["attributes"][2]) = n /\ Len(a["key_schema"][2]) = n
             /\ Cardinality(EntriesWith(a["key_schema"], "KeyType", PyStr("HASH")))
                   = (IF hk THEN 1 ELSE 0)
             /\ Cardinality(EntriesWith(a["key_schema"], "KeyType", PyStr("RANGE")))
                   = (IF rk THEN 1 ELSE 0)
             /\ \A i \in EntriesWith(a["key_schema"], "KeyType", PyStr("HASH")) :
                   /\ Item(a["key_schema"][2][i], "AttributeName") = r.hash_key_name
                   /\ a["attributes"][2][i] =
                         AttributeDefinition(r.hash_key_name, r.hash_key_type)
             /\ \A i \in EntriesWith(a["key_schema"], "KeyType", PyStr("RANGE")) :
                   /\ Item(a["key_schema"][2][i], "AttributeName") = r.range_key_name
                   /\ a["attributes"][2][i] =
                         AttributeDefinition(r.range_key_name, r.range_key_type)

\* C7 as stated: in the map handed to the runner, the attributes and key_schema
\* lists hold a HASH entry exactly when hash_key_name is supplied and a RANGE entry
\* exactly when range_key_name is supplied, and neither key is in the map when
\* neither name is supplied.
KeySchemaComposite ==
    (Handed /\ tool = "dynamodb_table") => KeyListsAsSupplied(HandedArgs, req)

\* C7 amended: the same, of every call whose kwargs carry neither 'attributes' nor
\* 'key_schema' (kwargs that carry one replace what the key names produced).
KeySchemaCompositeNoOverride ==
    (/\ Handed
     /\ tool = "dynamodb_table"
     /\ DOMAIN kwargs \cap {"attributes", "key_schema"} = {})
        => KeyListsAsSupplied(HandedArgs, req)

\* a range key without a hash key: both lists hold the RANGE entry alone
KeySchemaWitness ==
    /\ Handed
    /\ tool = "dynamodb_table"
    /\ ~Truthy(req.hash_key_name)
    /\ Truthy(req.range_key_name)
    /\ DOMAIN kwargs \cap {"attributes", "key_schema"} = {}
    /\ HandedArgs["key_schema"] = PyList(<<KeySchemaElement(req.range_key_name, "RANGE")>>)
    /\ Len(HandedArgs["attributes"][2]) = 1

\* ------------------------------------------------------------------------ C8
\* C8: the subnet map never has an 'availability_zone' key; it has an 'az' key
\* exactly when one of az and availability_zone is supplied, holding az when az is
\* supplied (also when both are) and availability_zone otherwise.
SubnetAliasResolution ==
    (Handed /\ tool = "ec2_vpc_subnet") =>
      LET a == HandedArgs
      IN  /\ "availability_zone" \notin DOMAIN a
          /\ ("az" \in DOMAIN a) <=> (Truthy(req.az) \/ Truthy(req.availability_zone))
          /\ Truthy(req.az) => a["az"] = req.az
          /\ (~Truthy(req.az) /\ Truthy(req.availability_zone))
                => a["az"] = req.availability_zone

\* both names supplied with different zones: az is the one handed over
SubnetAliasWitness ==
    /\ Handed
    /\ tool = "ec2_vpc_subnet"
    /\ Truthy(req.az) /\ Truthy(req.availability_zone)
    /\ req.az # req.availability_zone
    /\ HandedArgs["az"] = req.az

\* ------------------------------------------------------------------------ C9
\* C9: in every tool each key of kwargs is in the map handed to the runner with
\* exactly the kwargs value, also when a named rule had stored another value under
\* that key; every other key keeps what the named rules stored.
OverflowLastWriteWins ==
    Handed =>
      /\ \A k \in DOMAIN kwargs :
            k \in DOMAIN HandedArgs /\ HandedArgs[k] = kwargs[k]
      /\ \A k \in DOMAIN HandedArgs \ DOMAIN kwargs :
            k \in DOMAIN NamedArgs(tool, req) /\ HandedArgs[k] = NamedArgs(tool, req)[k]

\* kwargs names a key a named rule had written with another value
OverflowWitness ==
    /\ Handed
    /\ tool = "ec2_vpc_net"
    /\ "tenancy" \in DOMAIN kwargs
    /\ kwargs["tenancy"] # req.instance_tenancy
    /\ HandedArgs["tenancy"] = kwargs["tenancy"]

\* ------------------------------------------------------- repeated requests
\* The caller makes a call, keeps what the runner was handed, makes up to
\* MaxBetween other calls and then makes the first call again.

\* the calls made in between: each of these tools with its defaults
OtherTools == {"acm_private_ca", "s3_bucket"}

CallFirst ==
    /\ pc = "idle"
    /\ earlier = NoCall
    /\ \E t \in Tools : \E r \in Requests(t) : \E kw \in Kwargs(t) : Enter(t, r, kw)
    /\ UNCHANGED <<earlier, aws_config, sessions, access>>

\* the call is over; the caller keeps its request and the map the runner received
LeaveKeeping ==
    /\ pc \in {"returned", "raised"}
    /\ earlier = NoCall
    /\ earlier' = [tool |-> tool, req |-> req, kwargs |-> kwargs,
                   args |-> runner[1].args, between |-> 0]
    /\ UNCHANGED <<aws_config, sessions, access>>
    /\ pc' = "idle"
    /\ tool' = "none"
    /\ req' = EmptyMap
    /\ kwargs' = EmptyMap
    /\ module_args' = EmptyMap
    /\ runner' = <<>>
    /\ output' = NoOutput
    /\ result' = NoOutput
    /\ error' = NoError
    /\ events' = <<>>

CallOther ==
    /\ pc = "idle"
    /\ earlier # NoCall
    /\ earlier.between < MaxBetween
    /\ \E t \in OtherTools : Enter(t, Defaults(t), EmptyMap)
    /\ earlier' = [earlier EXCEPT !.between = @ + 1]
    /\ UNCHANGED <<aws_config, sessions, access>>

CallAgain ==
    /\ pc = "idle"
    /\ earlier # NoCall
    /\ Enter(earlier.tool, earlier.req, earlier.kwargs)
    /\ UNCHANGED <<earlier, aws_config, sessions, access>>

NextRepeat ==
    \/ CallFirst
    \/ LeaveKeeping
    \/ CallOther
    \/ CallAgain
    \/ Assemble
    \/ Merge
    \/ RunModule
    \/ RunModuleRaises
    \/ DisplayResults
    \/ Return
    \/ Leave

SpecRepeat == Init /\ [][NextRepeat]_vars

\* the current call repeats the kept one
Repeating ==
    /\ earlier # NoCall
    /\ tool = earlier.tool
    /\ req = earlier.req
    /\ kwargs = earlier.kwargs

Discriminator(t) ==
    CASE t = "dynamodb_table" -> {"billing_mode"}
      [] t = "lambda" -> {"package_type"}
      [] t = "elb_application_lb" -> {"scheme"}
      [] t = "kms_key" -> {"key_spec"}
      [] OTHER -> {}

PurgeTagsEveryTaggedKind ==
    (Handed /\ "tags" \in DOMAIN Defaults(tool)) => "purge_tags" \in DOMAIN HandedArgs

\* C12 amended: every tool that has a purge_tags parameter hands over purge_tags
\* with the caller's value (default true), with or without tags; the DynamoDB
\* table, the KMS key and the private CA take tags and have no purge_tags.
PurgeTagsAlways ==
    (Handed /\ "purge_tags" \in DOMAIN Defaults(tool)) =>
      /\ "purge_tags" \in DOMAIN HandedArgs
      /\ HandedArgs["purge_tags"] = req["purge_tags"]

\* a Lambda call without tags: purge_tags is stored, with its default
PurgeTagsWitness ==
    /\ Handed
    /\ tool = "lambda"
    /\ req["tags"] = None
    /\ "tags" \notin DOMAIN HandedArgs
    /\ HandedArgs["purge_tags"] = PyBool(TRUE)

\* ----------------------------------------------------------------------- C13
\* C13: in every tool the handed map has a 'region' key exactly when the caller
\* passed a non-empty region, and then with the caller's value; no region is put
\* there otherwise.
RegionOnlyWhenSupplied ==
    Handed =>
      /\ ("region" \in DOMAIN HandedArgs) <=> Truthy(req["region"])
      /\ Truthy(req["region"]) => HandedArgs["region"] = req["region"]

\* a Lambda call with a region
RegionWitness ==
    /\ Handed
    /\ tool = "lambda"
    /\ req["region"] = StrVal(1)
    /\ HandedArgs["region"] = StrVal(1)

\* ----------------------------------------------------------------------- C14
\* C14: a tool with a tags parameter hands over the caller's non-empty tags
\* mapping as it is, under 'tags', and no 'tags' key when the caller passed none
\* (or an empty one).
TagsVerbatim ==
    (Handed /\ "tags" \in DOMAIN req) =>
      /\ ("tags" \in DOMAIN HandedArgs) <=> Truthy(req["tags"])
      /\ Truthy(req["tags"]) => HandedArgs["tags"] = req["tags"]

\* an S3 call with one tag
TagsWitness ==
    /\ Handed
    /\ tool = "s3_bucket"
    /\ req["tags"] = PyDict(<< <<"Owner", StrVal(1)>> >>)
    /\ HandedArgs["tags"] = req["tags"]

\* ----------------------------------------------------------------------- C15
\* C15: in every tool, a call whose module runner returned gives its caller the
\* very value the runner returned, and the display step was shown that value too.
ResultPassThrough ==
    pc = "returned" =>
      /\ Len(runner) = 1
      /\ result = runner[1].returned
      /\ events[Len(events)] = <<"display_results", runner[1].returned>>

\* the internet gateway's call has returned what its runner returned
ResultPassThroughWitness ==
    /\ pc = "returned"
    /\ tool = "ec2_vpc_igw"
    /\ runner[1].returned = "output2"
    /\ result = "output2"

\* ----------------------------------------------------------------------- C16
\* the module runner raised in the current call
RunnerRaised == Handed /\ "raised" \in DOMAIN runner[1]

\* the display of results has taken place in the current call
ResultsDisplayed == \E i \in 1..Len(events) : events[i][1] = "display_results"

\* C16 as stated: when the module runner raises, the call ends with that error
\* wrapped in one that names the tool; the runner is not invoked again, nothing
\* is returned and the results are not displayed.
ErrorWrappedWithKind ==
    RunnerRaised =>
      /\ pc = "raised"
      /\ error = WrappedError(tool, runner[1].raised)
      /\ Len(runner) = 1
      /\ result = NoOutput
      /\ ~ResultsDisplayed

\* C16 amended: when the module runner raises, the call ends with the very error
\* the runner raised, not wrapped; the runner is not invoked again, nothing is
\* returned and the results are not displayed.
ErrorPassThrough ==
    RunnerRaised =>
      /\ pc = "raised"
      /\ error = runner[1].raised
      /\ Len(runner) = 1
      /\ result = NoOutput
      /\ ~ResultsDisplayed

\* the IAM policy tool's runner raised and the call ended with that error
ErrorPassThroughWitness ==
    /\ RunnerRaised
    /\ tool = "iam_policy"
    /\ pc = "raised"
    /\ error = <<"error", "error2">>

\* ----------------------------------------------------------------------- C17
\* C17 as stated: an ACM certificate call with both certificate_arn and a
\* certificate body hands over the key of only one of them.
CertificateSourceExclusive ==
    (Handed /\ tool = "acm_certificate"
       /\ Truthy(req["certificate_arn"]) /\ Truthy(req["certificate"])) =>
      ~({"certificate_arn", "certificate"} \subseteq DOMAIN HandedArgs)

\* C17 amended: certificate_arn and certificate are stored independently, each
\* exactly when it is non-empty, so a call with both hands over both.
CertificateSourcesIndependent ==
    (Handed /\ tool = "acm_certificate") =>
      \A p \in {"certificate_arn", "certificate"} :
         /\ (p \in DOMAIN HandedArgs) <=> Truthy(req[p])
         /\ Truthy(req[p]) => HandedArgs[p] = req[p]

\* both supplied, both handed over
CertificateSourcesWitness ==
    /\ Handed
    /\ tool = "acm_certificate"
    /\ Truthy(req["certificate_arn"])
    /\ Truthy(req["certificate"])
    /\ {"certificate_arn", "certificate"} \subseteq DOMAIN HandedArgs

\* ------------------------------------------------- concurrent invocations
\* MaxCalls threads call tools on one context at the same time, their steps
\* interleaved in any order. Each invocation has its own locals: under this
\* specification every variable is a function that gives, for each invocation,
\* what the variable holds for the single invocation of Spec.
Invocations == 1..MaxCalls

\* the calls the threads make
ConcurrentCalls ==
    {[tool |-> "dynamodb_table", req |-> [DynamoDefaults EXCEPT !.hash_key_name = h],
      kwargs |-> EmptyMap] : h \in {None, StrVal(1)}}
    \cup
    {[tool |-> "acm_private_ca", req |-> [CADefaults EXCEPT !.subject = sub], kwargs |-> kw] :
        sub \in {None, PyDict(<<>>)}, kw \in {EmptyMap, [extra_field |-> PyStr("kw")]}}

InitConcurrent ==
    /\ pc = [i \in Invocations |-> "idle"]
    /\ tool = [i \in Invocations |-> "none"]
    /\ req = [i \in Invocations |-> EmptyMap]
    /\ kwargs = [i \in Invocations |-> EmptyMap]
    /\ module_args = [i \in Invocations |-> EmptyMap]
    /\ runner = [i \in Invocations |-> <<>>]
    /\ output = [i \in Invocations |-> NoOutput]
    /\ result = [i \in Invocations |-> NoOutput]
    /\ error = [i \in Invocations |-> NoError]
    /\ events = [i \in Invocations |-> <<>>]
    /\ earlier = NoCall
    /\ aws_config = NoConfig
    /\ sessions = <<>>
    /\ access = NoAccess

\* invocation i starts: __call__ is entered and display_tool(...) called
EnterIn(i) ==
    /\ pc[i] = "idle"
    /\ \E c \in ConcurrentCalls :
          /\ tool' = [tool EXCEPT ![i] = c.tool]
          /\ req' = [req EXCEPT ![i] = c.req]
          /\ kwargs' = [kwargs EXCEPT ![i] = c.kwargs]
          /\ events' = [events EXCEPT ![i] = <<<<"display_tool", c.tool>>>>]
    /\ pc' = [pc EXCEPT ![i] = "displayed"]
    /\ UNCHANGED <<module_args, runner, output, result, error, earlier,
                 aws_config, sessions, access>>

\* AssembleIn with module_args kept on the tool object, which the threads share
AssembleInShared(i) ==
    /\ pc[i] = "displayed"
    /\ pc' = [pc EXCEPT ![i] = "assembled"]
    /\ module_args' = [j \in Invocations |-> NamedArgs(tool[i], req[i])]
    /\ UNCHANGED <<tool, req, kwargs, runner, output, result, error, events, earlier,
                 aws_config, sessions, access>>

\* module_args = {...} and the named-field rules, on the invocation's own local
AssembleIn(i) ==
    /\ pc[i] = "displayed"
    /\ pc' = [pc EXCEPT ![i] = "assembled"]
    /\ module_args' = [module_args EXCEPT ![i] = NamedArgs(tool[i], req[i])]
    /\ UNCHANGED <<tool, req, kwargs, runner, output, result, error, events, earlier,
                 aws_config, sessions, access>>

\* module_args.update(kwargs)
MergeIn(i) ==
    /\ pc[i] = "assembled"
    /\ pc' = [pc EXCEPT ![i] = "merged"]
    /\ module_args' = [module_args EXCEPT ![i] = Update(module_args[i], kwargs[i])]
    /\ UNCHANGED <<tool, req, kwargs, runner, output, result, error, events, earlier,
                 aws_config, sessions, access>>

\* output = self.context.run_module(self.module, **module_args), returning
RunModuleIn(i) ==
    /\ pc[i] = "merged"
    /\ pc' = [pc EXCEPT ![i] = "ran"]
    /\ events' = [events EXCEPT ![i] = Append(@, <<RunnerMethod(tool[i]), tool[i]>>)]
    /\ \E o \in Outputs :
          /\ runner' = [runner EXCEPT ![i] =
                          Append(@, [module |-> tool[i], args |-> module_args[i], returned |-> o])]
          /\ output' = [output EXCEPT ![i] = o]
    /\ UNCHANGED <<tool, req, kwargs, module_args, result, error, earlier,
                 aws_config, sessions, access>>

\* the module runner raises and the exception leaves invocation i
RunModuleRaisesIn(i) ==
    /\ pc[i] = "merged"
    /\ pc' = [pc EXCEPT ![i] = "raised"]
    /\ events' = [events EXCEPT ![i] = Append(@, <<RunnerMethod(tool[i]), tool[i]>>)]
    /\ \E e \in ModuleErrors :
          /\ runner' = [runner EXCEPT ![i] =
                          Append(@, [module |-> tool[i], args |-> module_args[i], raised |-> e])]
          /\ error' = [error EXCEPT ![i] = e]
    /\ UNCHANGED <<tool, req, kwargs, module_args, output, result, earlier,
                 aws_config, sessions, access>>

\* display_results(output, ...)
DisplayResultsIn(i) ==
    /\ pc[i] = "ran"
    /\ pc' = [pc EXCEPT ![i] = "shown"]
    /\ events' = [events EXCEPT ![i] = Append(@, <<"display_results", output[i]>>)]
    /\ UNCHANGED <<tool, req, kwargs, module_args, runner, output, result, error, earlier,
                 aws_config, sessions, access>>

\* return output
ReturnIn(i) ==
    /\ pc[i] = "shown"
    /\ pc' = [pc EXCEPT ![i] = "returned"]
    /\ result' = [result EXCEPT ![i] = output[i]]
    /\ UNCHANGED <<tool, req, kwargs, module_args, runner, output, error, events, earlier,
                 aws_config, sessions, access>>

\* invocation i is over; its locals are gone
LeaveIn(i) ==
    /\ pc[i] \in {"returned", "raised"}
    /\ pc' = [pc EXCEPT ![i] = "idle"]
    /\ tool' = [tool EXCEPT ![i] = "none"]
    /\ req' = [req EXCEPT ![i] = EmptyMap]
    /\ kwargs' = [kwargs EXCEPT ![i] = EmptyMap]
    /\ module_args' = [module_args EXCEPT ![i] = EmptyMap]
    /\ runner' = [runner EXCEPT ![i] = <<>>]
    /\ output' = [output EXCEPT ![i] = NoOutput]
    /\ result' = [result EXCEPT ![i] = NoOutput]
    /\ error' = [error EXCEPT ![i] = NoError]
    /\ events' = [events EXCEPT ![i] = <<>>]
    /\ UNCHANGED <<earlier, aws_config, sessions, access>>

NextConcurrent ==
    \/ \E i \in Invocations : EnterIn(i)
    \/ \E i \in Invocations : AssembleIn(i)
    \/ \E i \in Invocations : MergeIn(i)
    \/ \E i \in Invocations : RunModuleIn(i)
    \/ \E i \in Invocations : RunModuleRaisesIn(i)
    \/ \E i \in Invocations : DisplayResultsIn(i)
    \/ \E i \in Invocations : ReturnIn(i)
    \/ \E i \in Invocations : LeaveIn(i)

SpecConcurrent == InitConcurrent /\ [][NextConcurrent]_vars

\* the map invocation i hands over when nothing else runs: the named rules of
\* its tool on its parameters, then its kwargs
AloneArgs(i) == Update(NamedArgs(tool[i], req[i]), kwargs[i])

\* ----------------------------------------------------------------------- C18
\* C18: however the steps of concurrent invocations interleave, each invocation
\* hands the module runner, once, the map it hands over when run alone.
ConcurrentSameAsAlone ==
    \A i \in Invocations :
       Len(runner[i]) > 0 =>
          /\ Len(runner[i]) = 1
          /\ runner[i][1].module = tool[i]
          /\ runner[i][1].args = AloneArgs(i)

\* a DynamoDB call and a private CA call in flight together: the second was
\* assembled and merged while the first was between its assembly and its hand-over
ConcurrentWitness ==
    \E i, j \in Invocations :
       /\ tool[i] = "dynamodb_table"
       /\ tool[j] = "acm_private_ca"
       /\ pc[i] = "ran"
       /\ pc[j] = "merged"
       /\ "attributes" \in DOMAIN runner[i][1].args
       /\ "extra_field" \in DOMAIN module_args[j]

\* ------------------------------------------------------- helper functions
\* The module-level functions that build policy documents. They return
\* dictionaries, which are dictionary values here: PyDict of (key, value) pairs
\* in the order the code inserts them.

\* iam_role.create_service_trust_policy(services)
create_service_trust_policy(services) ==
    LET principals == PyList([i \in 1..Len(services[2]) |-> PyStr(services[2][i][2])])
    IN  PyDict(<< <<"Version", PyStr("2012-10-17")>>,
                  <<"Statement", PyList(<<
                      PyDict(<< <<"Effect", PyStr("Allow")>>,
                                <<"Principal", PyDict(<< <<"Service", principals>> >>)>>,
                                <<"Action", PyStr("sts:AssumeRole")>> >>) >>)>> >>)

\* create_cross_account_trust_policy with the condition added without a test
create_cross_account_trust_policy_always(account_ids, external_id) ==
    LET principals == PyList([i \in 1..Len(account_ids[2]) |->
                                PyStr("arn:aws:iam::" \o account_ids[2][i][2] \o ":root")])
        statement == << <<"Effect", PyStr("Allow")>>,
                        <<"Principal", PyDict(<< <<"AWS", principals>> >>)>>,
                        <<"Action", PyStr("sts:AssumeRole")>>,
                        <<"Condition", PyDict(<< <<"StringEquals",
                              PyDict(<< <<"sts:ExternalId", external_id>> >>)>> >>)>> >>
    IN  PyDict(<< <<"Version", PyStr("2012-10-17")>>,
                  <<"Statement", PyList(<<PyDict(statement)>>)>> >>)

\* iam_role.create_cross_account_trust_policy(account_ids, external_id=None)
create_cross_account_trust_policy(account_ids, external_id) ==
    LET principals == PyList([i \in 1..Len(account_ids[2]) |->
                                PyStr("arn:aws:iam::" \o account_ids[2][i][2] \o ":root")])
        statement == << <<"Effect", PyStr("Allow")>>,
                        <<"Principal", PyDict(<< <<"AWS", principals>> >>)>>,
                        <<"Action", PyStr("sts:AssumeRole")>> >>
        condition == IF Truthy(external_id)
                     THEN << <<"Condition", PyDict(<< <<"StringEquals",
                                  PyDict(<< <<"sts:ExternalId", external_id>> >>)>> >>)>> >>
                     ELSE <<>>
    IN  PyDict(<< <<"Version", PyStr("2012-10-17")>>,
                  <<"Statement", PyList(<<PyDict(statement \o condition)>>)>> >>)

\* create_policy_statement without the principals rule
create_policy_statement_no_principal(effect, actions, resources, conditions, principals) ==
    PyDict(<< <<"Effect", effect>>, <<"Action", actions>>, <<"Resource", resources>> >>
           \o (IF Truthy(conditions) THEN << <<"Condition", conditions>> >> ELSE <<>>))

\* iam_policy.create_policy_statement(effect, actions, resources, conditions=None,
\* principals=None)
create_policy_statement(effect, actions, resources, conditions, principals) ==
    PyDict(<< <<"Effect", effect>>, <<"Action", actions>>, <<"Resource", resources>> >>
           \o (IF Truthy(conditions) THEN << <<"Condition", conditions>> >> ELSE <<>>)
           \o (IF Truthy(principals) THEN << <<"Principal", principals>> >> ELSE <<>>))

\* s3_bucket.create_bucket_policy_statement(effect, actions, resources,
\* principals=None, conditions=None)
create_bucket_policy_statement(effect, actions, resources, principals, conditions) ==
    PyDict(<< <<"Effect", effect>>, <<"Action", actions>>, <<"Resource", resources>> >>
           \o (IF Truthy(principals) THEN << <<"Principal", principals>> >> ELSE <<>>)
           \o (IF Truthy(conditions) THEN << <<"Condition", conditions>> >> ELSE <<>>))

\* iam_policy.create_policy_document(statements, version="2012-10-17")
create_policy_document(statements, version) ==
    PyDict(<< <<"Version", version>>, <<"Statement", statements>> >>)

\* security group rule helpers (ec2_security_group.py)
\* create_https_rule with `if source_group_id:` in place of the elif/else
create_https_rule_both(port, cidr_ip, source_group_id, description) ==
    PyDict(<< <<"proto", PyStr("tcp")>>, <<"ports", PyList(<<port>>)>> >>
           \o (IF Truthy(description) THEN << <<"rule_desc", description>> >> ELSE <<>>)
           \o (IF Truthy(cidr_ip) THEN << <<"cidr_ip", cidr_ip>> >> ELSE <<>>)
           \o (IF Truthy(source_group_id) THEN << <<"group_id", source_group_id>> >>
               ELSE <<>>))

\* an HTTPS ingress rule; the source is cidr_ip, else source_group_id, else anywhere
create_https_rule(port, cidr_ip, source_group_id, description) ==
    PyDict(<< <<"proto", PyStr("tcp")>>, <<"ports", PyList(<<port>>)>> >>
           \o (IF Truthy(description) THEN << <<"rule_desc", description>> >> ELSE <<>>)
           \o (IF Truthy(cidr_ip) THEN << <<"cidr_ip", cidr_ip>> >>
               ELSE IF Truthy(source_group_id) THEN << <<"group_id", source_group_id>> >>
               ELSE << <<"cidr_ip", PyStr("0.0.0.0/0")>> >>))

\* an HTTP ingress rule, built the same way
create_http_rule(port, cidr_ip, source_group_id, description) ==
    PyDict(<< <<"proto", PyStr("tcp")>>, <<"ports", PyList(<<port>>)>> >>
           \o (IF Truthy(description) THEN << <<"rule_desc", description>> >> ELSE <<>>)
           \o (IF Truthy(cidr_ip) THEN << <<"cidr_ip", cidr_ip>> >>
               ELSE IF Truthy(source_group_id) THEN << <<"group_id", source_group_id>> >>
               ELSE << <<"cidr_ip", PyStr("0.0.0.0/0")>> >>))

\* a rule for any protocol, built the same way
create_custom_rule(protocol, port, cidr_ip, source_group_id, description) ==
    PyDict(<< <<"proto", protocol>>, <<"ports", PyList(<<port>>)>> >>
           \o (IF Truthy(description) THEN << <<"rule_desc", description>> >> ELSE <<>>)
           \o (IF Truthy(cidr_ip) THEN << <<"cidr_ip", cidr_ip>> >>
               ELSE IF Truthy(source_group_id) THEN << <<"group_id", source_group_id>> >>
               ELSE << <<"cidr_ip", PyStr("0.0.0.0/0")>> >>))

\* tag and argument helpers (utils.py)

\* d.update(u) on dictionary values: a key of d takes u's value where it stands,
\* the other keys of u follow in u's order
DictUpdate(d, u) ==
    PyDict([i \in 1..Len(d[2]) |->
                IF d[2][i][1] \in Keys(u) THEN <<d[2][i][1], Item(u, d[2][i][1])>>
                ELSE d[2][i]]
           \o SelectSeq(u[2], LAMBDA kv : kv[1] \notin Keys(d)))

\* get_default_tags returning one module-level dictionary, which merge_tags then
\* updates in place: a later call starts from what the call before left
get_default_tags_shared ==
    IF earlier = NoCall
    THEN PyDict(<< <<"ManagedBy", PyStr("FTL-Automation")>>,
                   <<"CreatedBy", PyStr("ftl-aws-tools")>> >>)
    ELSE earlier.result

\* get_default_tags(): a new dictionary on every call
get_default_tags ==
    PyDict(<< <<"ManagedBy", PyStr("FTL-Automation")>>,
              <<"CreatedBy", PyStr("ftl-aws-tools")>> >>)

\* merge_tags(resource_tags): what it returns, and the argument as it leaves it
merge_tags(resource_tags) ==
    LET tags == get_default_tags
    IN  [returned |-> IF Truthy(resource_tags) THEN DictUpdate(tags, resource_tags)
                      ELSE tags,
         resource_tags |-> resource_tags]

\* format_ansible_tags(tags)
format_ansible_tags(tags) ==
    [resource_tags |-> tags, purge_tags |-> PyBool(FALSE)]

\* build_module_args with `args = base_args` in place of the copy: the caller's
\* dictionary is the one written to
build_module_args_alias(base_args, region, tags, dry_run, env) ==
    LET args == Assign(<<
            base_args,
            IF Truthy(region) THEN [region |-> region]
            ELSE Opt("region" \notin DOMAIN base_args, "region", get_aws_region(env)),
            IF Truthy(tags) THEN format_ansible_tags(merge_tags(tags).returned)
            ELSE EmptyMap,
            Opt(Truthy(dry_run), "_ansible_check_mode", PyBool(TRUE))>>)
    IN  [returned |-> args, base_args |-> args]

\* build_module_args(base_args, region, tags, dry_run) called in environment env:
\* what it returns, and base_args as it leaves it (the writes go to the copy)
build_module_args(base_args, region, tags, dry_run, env) ==
    LET args == Assign(<<
            base_args,
            IF Truthy(region) THEN [region |-> region]
            ELSE Opt("region" \notin DOMAIN base_args, "region", get_aws_region(env)),
            IF Truthy(tags) THEN format_ansible_tags(merge_tags(tags).returned)
            ELSE EmptyMap,
            Opt(Truthy(dry_run), "_ansible_check_mode", PyBool(TRUE))>>)
    IN  [returned |-> args, base_args |-> base_args]

\* the tags callers pass
TagMaps ==
    OptDict \cup {PyDict(<< <<"ManagedBy", StrVal(1)>> >>),
                  PyDict(<< <<"Team", StrVal(1)>>, <<"CreatedBy", StrVal(1)>> >>)}

\* the tool-specific arguments callers pass as base_args
BaseArgs ==
    {EmptyMap,
     [state |-> PyStr("present"), purge_tags |-> PyBool(TRUE)],
     [state |-> PyStr("present"), purge_tags |-> PyBool(FALSE)],
     [state |-> PyStr("present"), region |-> PyStr("ap-south-1")],
     [name |-> StrVal(1), region |-> None]}

\* the lists of strings callers pass
StrLists == {PyList(q) : q \in UNION {[1..n -> Strings] : n \in 0..MaxItems}}

\* the statements callers pass to create_policy_document
SomeStatements ==
    {create_policy_statement(PyStr("Allow"), PyList(<<StrVal(1)>>), PyList(<<StrVal(1)>>), None, None),
     create_bucket_policy_statement(PyStr("Deny"), PyList(<<StrVal(1)>>), PyList(<<>>),
                                    PyDict(<< <<"AWS", PyStr("*")>> >>), None)}

\* the calls of the helper functions: the function and its arguments, with the
\* signature default where the caller leaves an argument out; a function that reads
\* the ambient region has the environment it is called in as environ
HelperCalls ==
    {[fn |-> "create_service_trust_policy", args |-> [services |-> l]] : l \in StrLists}
    \cup
    {[fn |-> "create_cross_account_trust_policy",
      args |-> [account_ids |-> l, external_id |-> e]] : l \in StrLists, e \in OptStr}
    \cup
    {[fn |-> f, args |-> [effect |-> e, actions |-> a, resources |-> r,
                          conditions |-> c, principals |-> pr]] :
        f \in {"create_policy_statement", "create_bucket_policy_statement"},
        e \in {PyStr("Allow"), PyStr("Deny")}, a \in StrLists, r \in {PyList(<<>>), PyList(<<StrVal(1)>>)},
        c \in OptDict, pr \in OptDict}
    \cup
    {[fn |-> "create_policy_document", args |-> [statements |-> PyList(q), version |-> v]] :
        q \in UNION {[1..n -> SomeStatements] : n \in 0..MaxItems},
        v \in {PyStr("2012-10-17"), PyStr("2008-10-17")}}
    \cup
    {[fn |-> f, args |-> [port |-> p, cidr_ip |-> c, source_group_id |-> g,
                          description |-> d]] :
        f \in {"create_https_rule", "create_http_rule"}, p \in {PyInt(443), PyInt(80)},
        c \in OptStr, g \in OptStr, d \in OptStr1}
    \cup
    {[fn |-> "create_custom_rule",
      args |-> [protocol |-> pr, port |-> PyInt(53), cidr_ip |-> c, source_group_id |-> g,
                description |-> d]] :
        pr \in {PyStr("tcp"), PyStr("udp")}, c \in OptStr, g \in OptStr, d \in OptStr1}
    \cup
    {[fn |-> "merge_tags", args |-> [resource_tags |-> t]] : t \in TagMaps}
    \cup
    {[fn |-> "build_module_args",
      args |-> [base_args |-> b, region |-> r, tags |-> t, dry_run |-> d, environ |-> e]] :
        b \in BaseArgs, r \in OptStr1, t \in TagMaps, d \in Bools, e \in Environments}

\* what a helper call returns
Apply(c) ==
    LET a == c.args
    IN  CASE c.fn = "create_service_trust_policy" -> create_service_trust_policy(a.services)
          [] c.fn = "create_cross_account_trust_policy" ->
                create_cross_account_trust_policy(a.account_ids, a.external_id)
          [] c.fn = "create_policy_statement" ->
                create_policy_statement(a.effect, a.actions, a.resources, a.conditions, a.principals)
          [] c.fn = "create_bucket_policy_statement" ->
                create_bucket_policy_statement(a.effect, a.actions, a.resources, a.principals,
                                               a.conditions)
          [] c.fn = "create_policy_document" -> create_policy_document(a.statements, a.version)
          [] c.fn = "create_https_rule" ->
                create_https_rule(a.port, a.cidr_ip, a.source_group_id, a.description)
          [] c.fn = "create_http_rule" ->
                create_http_rule(a.port, a.cidr_ip, a.source_group_id, a.description)
          [] c.fn = "create_custom_rule" ->
                create_custom_rule(a.protocol, a.port, a.cidr_ip, a.source_group_id,
                                   a.description)
          [] c.fn = "merge_tags" -> merge_tags(a.resource_tags).returned
          [] c.fn = "build_module_args" ->
                build_module_args(a.base_args, a.region, a.tags, a.dry_run, a.environ).returned

\* the arguments of a helper call as the function leaves them
ArgumentsAfter(c) ==
    LET a == c.args
    IN  CASE c.fn = "merge_tags" ->
                [a EXCEPT !.resource_tags = merge_tags(a.resource_tags).resource_tags]
          [] c.fn = "build_module_args" ->
                [a EXCEPT !.base_args =
                     build_module_args(a.base_args, a.region, a.tags, a.dry_run,
                                       a.environ).base_args]
          [] OTHER -> a

\* a helper function is called and returns: kwargs keeps the arguments as the caller
\* passed them, req the same arguments as the function leaves them, and earlier the
\* last merge_tags call with the arguments of the one before it
CallHelper ==
    /\ pc = "idle"
    /\ \E c \in HelperCalls :
          /\ tool' = c.fn
          /\ kwargs' = c.args
          /\ req' = ArgumentsAfter(c)
          /\ result' = Apply(c)
          /\ earlier' = IF c.fn = "merge_tags"
                        THEN [tool |-> c.fn, req |-> c.args, result |-> Apply(c),
                              previous |-> IF earlier = NoCall THEN NoCall
                                           ELSE [tool |-> earlier.tool, req |-> earlier.req]]
                        ELSE earlier
    /\ pc' = "returned"
    /\ UNCHANGED <<module_args, runner, output, error, events, aws_config, sessions, access>>

NextHelpers ==
    \/ CallHelper
    \/ Leave

SpecHelpers == Init /\ [][NextHelpers]_vars

\* the only statement of a document
OnlyStatement(doc) == Item(doc, "Statement")[2][1]

\* ----------------------------------------------------------------------- C19
\* C19: create_service_trust_policy returns a document with one Allow statement
\* whose Service principal is the given list and whose action is sts:AssumeRole;
\* create_cross_account_trust_policy returns one Allow statement whose AWS
\* principal lists the root ARN of each account in the given order, with a
\* StringEquals condition on sts:ExternalId exactly when external_id is non-empty.
TrustBuilders ==
    /\ (pc = "returned" /\ tool = "create_service_trust_policy") =>
          /\ Len(Item(result, "Statement")[2]) = 1
          /\ Keys(OnlyStatement(result)) = {"Effect", "Principal", "Action"}
          /\ Item(OnlyStatement(result), "Effect") = PyStr("Allow")
          /\ Item(OnlyStatement(result), "Principal") = PyDict(<< <<"Service", req.services>> >>)
          /\ Item(OnlyStatement(result), "Action") = PyStr("sts:AssumeRole")
    /\ (pc = "returned" /\ tool = "create_cross_account_trust_policy") =>
          LET st == OnlyStatement(result)
              arns == Item(Item(st, "Principal"), "AWS")[2]
          IN  /\ Len(Item(result, "Statement")[2]) = 1
              /\ Item(st, "Effect") = PyStr("Allow")
              /\ Item(st, "Action") = PyStr("sts:AssumeRole")
              /\ Keys(Item(st, "Principal")) = {"AWS"}
              /\ Len(arns) = Len(req.account_ids[2])
              /\ \A i \in 1..Len(arns) :
                    arns[i] = PyStr("arn:aws:iam::" \o req.account_ids[2][i][2] \o ":root")
              /\ ("Condition" \in Keys(st)) <=> Truthy(req.external_id)
              /\ Truthy(req.external_id) =>
                    Item(st, "Condition") =
                       PyDict(<< <<"StringEquals",
                                   PyDict(<< <<"sts:ExternalId", req.external_id>> >>)>> >>)

\* two accounts and no external id: two root ARNs in order, no condition
TrustBuildersWitness ==
    /\ pc = "returned"
    /\ tool = "create_cross_account_trust_policy"
    /\ req.account_ids = PyList(<<StrVal(2), StrVal(1)>>)
    /\ req.external_id = None
    /\ Item(Item(OnlyStatement(result), "Principal"), "AWS") =
          PyList(<<PyStr("arn:aws:iam::s2:root"), PyStr("arn:aws:iam::s1:root")>>)
    /\ "Condition" \notin Keys(OnlyStatement(result))

\* ----------------------------------------------------------------------- C20
\* C20: create_policy_statement and create_bucket_policy_statement return Effect,
\* Action and Resource equal to their arguments, with a Condition key and a
\* Principal key each exactly when that argument is non-empty, holding it;
\* create_policy_document returns the given statements list under Statement and
\* the given version under Version.
PolicyBuilders ==
    /\ (pc = "returned"
          /\ tool \in {"create_policy_statement", "create_bucket_policy_statement"}) =>
          /\ Item(result, "Effect") = req.effect
          /\ Item(result, "Action") = req.actions
          /\ Item(result, "Resource") = req.resources
          /\ ("Condition" \in Keys(result)) <=> Truthy(req.conditions)
          /\ Truthy(req.conditions) => Item(result, "Condition") = req.conditions
          /\ ("Principal" \in Keys(result)) <=> Truthy(req.principals)
          /\ Truthy(req.principals) => Item(result, "Principal") = req.principals
          /\ Keys(result) \subseteq {"Effect", "Action", "Resource", "Condition", "Principal"}
    /\ (pc = "returned" /\ tool = "create_policy_document") =>
          /\ Keys(result) = {"Version", "Statement"}
          /\ Item(result, "Version") = req.version
          /\ Item(result, "Statement") = req.statements

\* a statement with a principal and without a condition
PolicyBuildersWitness ==
    /\ pc = "returned"
    /\ tool = "create_policy_statement"
    /\ Truthy(req.principals)
    /\ req.conditions = None
    /\ Keys(result) = {"Effect", "Action", "Resource", "Principal"}

\* ------------------------------------------------------------------------
\* Load balancer access logs

\* what the access-log parameters of request r put in map a
AccessLogsAsSupplied(a, r) ==
    /\ ("access_logs" \in DOMAIN a) <=> Truthy(r.access_logs_enabled)
    /\ DOMAIN a \cap {"access_logs_enabled", "access_logs_s3_bucket", "access_logs_s3_prefix",
                      "s3_bucket", "s3_prefix"} = {}
    /\ Truthy(r.access_logs_enabled) =>
          /\ a["access_logs"][1] = "dict"
          /\ Keys(a["access_logs"]) \subseteq {"enabled", "s3_bucket", "s3_prefix"}
          /\ Item(a["access_logs"], "enabled") = PyBool(TRUE)
          /\ ("s3_bucket" \in Keys(a["access_logs"])) <=> Truthy(r.access_logs_s3_bucket)
          /\ ("s3_prefix" \in Keys(a["access_logs"])) <=> Truthy(r.access_logs_s3_prefix)
          /\ Truthy(r.access_logs_s3_bucket) =>
                Item(a["access_logs"], "s3_bucket") = r.access_logs_s3_bucket
          /\ Truthy(r.access_logs_s3_prefix) =>
                Item(a["access_logs"], "s3_prefix") = r.access_logs_s3_prefix

\* C21 as stated: the map handed to the runner for a load balancer holds an
\* 'access_logs' object only when access_logs_enabled is true; the object always
\* has enabled = True and holds s3_bucket and s3_prefix exactly when the matching
\* parameter is supplied; when logging is not enabled a supplied bucket or prefix
\* appears nowhere in the map.
AccessLogsByMode ==
    (Handed /\ tool = "elb_application_lb") => AccessLogsAsSupplied(HandedArgs, req)

\* C21 amended: the same, of every call whose kwargs carry no 'access_logs' (kwargs
\* that carry one put their own value under the key, enabled or not).
AccessLogsByModeNoOverride ==
    (/\ Handed
     /\ tool = "elb_application_lb"
     /\ "access_logs" \notin DOMAIN kwargs)
        => AccessLogsAsSupplied(HandedArgs, req)

\* logging enabled with a bucket and no prefix: the object holds enabled and s3_bucket
AccessLogsWitness ==
    /\ Handed
    /\ tool = "elb_application_lb"
    /\ "access_logs" \notin DOMAIN kwargs
    /\ req.access_logs_enabled = PyBool(TRUE)
    /\ req.access_logs_s3_bucket = StrVal(1)
    /\ req.access_logs_s3_prefix = None
    /\ HandedArgs["access_logs"] =
          PyDict(<< <<"enabled", PyBool(TRUE)>>, <<"s3_bucket", StrVal(1)>> >>)

\* ------------------------------------------------------------------------
\* Lambda package type

\* C22: the map handed to the runner for a Lambda function always holds
\* package_type, and holds runtime (handler) exactly when the parameter is supplied
\* and package_type is 'Zip', with the value supplied.
PackageTypeDiscriminator ==
    (Handed /\ tool = "lambda") =>
        /\ "package_type" \in DOMAIN HandedArgs
        /\ HandedArgs["package_type"] = req.package_type
        /\ \A p \in {"runtime", "handler"} :
              /\ (p \in DOMAIN HandedArgs)
                    <=> (Truthy(req[p]) /\ req.package_type = PyStr("Zip"))
              /\ (p \in DOMAIN HandedArgs) => HandedArgs[p] = req[p]

\* an Image function called with a runtime: the runtime is not in the map
PackageTypeWitness ==
    /\ Handed
    /\ tool = "lambda"
    /\ req.package_type = PyStr("Image")
    /\ Truthy(req.runtime)
    /\ "runtime" \notin DOMAIN HandedArgs
    /\ "package_type" \in DOMAIN HandedArgs

\* ------------------------------------------------------------------------
\* Lambda policy qualifier

\* C28: the map handed to the runner for a Lambda permission never holds both
\* 'alias' and 'version'; it holds alias exactly when an alias is supplied, and
\* version exactly when no alias is supplied and a version is.
QualifierResolution ==
    (Handed /\ tool = "lambda_policy") =>
        /\ ~({"alias", "version"} \subseteq DOMAIN HandedArgs)
        /\ ("alias" \in DOMAIN HandedArgs) <=> Truthy(req.alias)
        /\ ("version" \in DOMAIN HandedArgs) <=> (~Truthy(req.alias) /\ Truthy(req.version))
        /\ ("alias" \in DOMAIN HandedArgs) => HandedArgs["alias"] = req.alias
        /\ ("version" \in DOMAIN HandedArgs) => HandedArgs["version"] = req.version

\* an alias and a version both supplied: the map holds the alias alone
QualifierWitness ==
    /\ Handed
    /\ tool = "lambda_policy"
    /\ Truthy(req.alias)
    /\ Truthy(req.version)
    /\ "alias" \in DOMAIN HandedArgs
    /\ "version" \notin DOMAIN HandedArgs

\* ------------------------------------------------------------------------
\* DynamoDB parallel lists

\* the attribute names of a list of entries, in order
AttributeNames(v) == [i \in 1..Len(v[2]) |-> Item(v[2][i], "AttributeName")]

\* C29: when kwargs carry neither list, the 'attributes' and 'key_schema' lists
\* handed to the runner have the same length and name the same attributes in the
\* same positions; key_schema holds at most one HASH and at most one RANGE entry,
\* the HASH entry before the RANGE entry; a range key supplied without a hash key
\* gives lists holding the RANGE entry alone.
ParallelKeyLists ==
    (/\ Handed
     /\ tool = "dynamodb_table"
     /\ DOMAIN kwargs \cap {"attributes", "key_schema"} = {}) =>
        /\ ("attributes" \in DOMAIN HandedArgs) <=> ("key_schema" \in DOMAIN HandedArgs)
        /\ "attributes" \in DOMAIN HandedArgs =>
              LET attributes == HandedArgs["attributes"]
                  key_schema == HandedArgs["key_schema"]
                  hash == EntriesWith(key_schema, "KeyType", PyStr("HASH"))
                  range == EntriesWith(key_schema, "KeyType", PyStr("RANGE"))
              IN  /\ IsEntryList(attributes) /\ IsEntryList(key_schema)
                  /\ Len(attributes[2]) = Len(key_schema[2])
                  /\ AttributeNames(attributes) = AttributeNames(key_schema)
                  /\ Cardinality(hash) <= 1 /\ Cardinality(range) <= 1
                  /\ hash \cup range = 1..Len(key_schema[2])
                  /\ \A i \in hash : \A j \in range : i < j
                  /\ (~Truthy(req.hash_key_name) /\ Truthy(req.range_key_name)) =>
                        /\ key_schema =
                              PyList(<<KeySchemaElement(req.range_key_name, "RANGE")>>)
                        /\ attributes =
                              PyList(<<AttributeDefinition(req.range_key_name,
                                                           req.range_key_type)>>)

\* both keys supplied under different names: two entries in each list, HASH first
ParallelKeyListsWitness ==
    /\ Handed
    /\ tool = "dynamodb_table"
    /\ DOMAIN kwargs \cap {"attributes", "key_schema"} = {}
    /\ Truthy(req.hash_key_name)
    /\ Truthy(req.range_key_name)
    /\ req.hash_key_name # req.range_key_name
    /\ Len(HandedArgs["key_schema"][2]) = 2
    /\ Item(HandedArgs["key_schema"][2][1], "KeyType") = PyStr("HASH")
    /\ Item(HandedArgs["attributes"][2][2], "AttributeName") = req.range_key_name

\* ------------------------------------------------------------------------
\* Computed defaults of the certificate tools

\* the value the private CA stores for a parameter: the default for None only
CAStored(value, default) == IF value = None THEN default ELSE value

\* the value the certificate generator stores: the default for None and for empty
AAPStored(value, default) == IF value \in {None, PyDict(<<>>)} THEN default ELSE value

\* what the certificate generator hands the runner for its two computed defaults
AAPComputedDefaults ==
    (Handed /\ tool = "aap_certificate_generator") =>
        /\ {"validity_period", "subject_additional_fields"} \subseteq DOMAIN HandedArgs
        /\ HandedArgs["validity_period"] = AAPStored(req.validity_period, AAPDefaultValidity)
        /\ HandedArgs["subject_additional_fields"] =
              AAPStored(req.subject_additional_fields, AAPDefaultSubjectFields)

\* C25 as stated: the private CA map always holds 'subject' and 'validity', each
\* the default when the parameter is None and the parameter itself otherwise (an
\* empty mapping included); the certificate generator map always holds
\* 'validity_period' and 'subject_additional_fields', each the default when the
\* parameter is None or empty and the parameter itself otherwise.
ComputedDefaults ==
    /\ (Handed /\ tool = "acm_private_ca") =>
          /\ {"subject", "validity"} \subseteq DOMAIN HandedArgs
          /\ HandedArgs["subject"] = CAStored(req.subject, CADefaultSubject)
          /\ HandedArgs["validity"] = CAStored(req.validity_period, CADefaultValidity)
    /\ AAPComputedDefaults

\* C25 amended: the same, except that the private CA's 'validity' is the value
\* described only when kwargs carry no 'validity' (the key is in the map either way).
ComputedDefaultsNoOverride ==
    /\ (Handed /\ tool = "acm_private_ca") =>
          /\ {"subject", "validity"} \subseteq DOMAIN HandedArgs
          /\ HandedArgs["subject"] = CAStored(req.subject, CADefaultSubject)
          /\ "validity" \notin DOMAIN kwargs =>
                HandedArgs["validity"] = CAStored(req.validity_period, CADefaultValidity)
    /\ AAPComputedDefaults

\* the private CA called with an empty validity_period and an absent subject: the
\* empty mapping is handed on as it is, next to the default subject
ComputedDefaultsWitness ==
    /\ Handed
    /\ tool = "acm_private_ca"
    /\ "validity" \notin DOMAIN kwargs
    /\ req.validity_period = PyDict(<<>>)
    /\ req.subject = None
    /\ HandedArgs["validity"] = PyDict(<<>>)
    /\ HandedArgs["subject"] = CADefaultSubject

\* ------------------------------------------------------------------------
\* Order of the steps of one call

\* C23: in every state of a call the collaborators called so far are, in order,
\* display_tool, then the module runner, then display_results, each at most once
\* and none before the one that precedes it; the runner is called with the tool's
\* module and the map the named fields and then kwargs give; display_results gets
\* what the runner returned; and the caller has a result only after display_results,
\* that same value. A call that returns has made each of the three calls exactly once.
CallOrdering ==
    LET display_tool == <<"display_tool", tool>>
        run_module == <<RunnerMethod(tool), tool>>
        display_results == <<"display_results", output>>
    IN  /\ pc = "idle" => (events = <<>> /\ runner = <<>>)
        /\ pc \in {"displayed", "assembled", "merged"} =>
              (events = <<display_tool>> /\ runner = <<>>)
        /\ pc \in {"ran", "raised"} =>
              (events = <<display_tool, run_module>> /\ Len(runner) = 1)
        /\ pc \in {"shown", "returned"} =>
              /\ events = <<display_tool, run_module, display_results>>
              /\ Len(runner) = 1
              /\ "returned" \in DOMAIN runner[1]
              /\ output = runner[1].returned
        /\ Len(runner) = 1 =>
              /\ runner[1].module = tool
              /\ runner[1].args = Update(NamedArgs(tool, req), kwargs)
        /\ pc = "returned" => result = runner[1].returned
        /\ pc # "returned" => result = NoOutput

\* an alarm call with a kwargs entry has returned: three calls made, in order
CallOrderingWitness ==
    /\ pc = "returned"
    /\ tool = "cloudwatch_metric_alarm"
    /\ kwargs # EmptyMap
    /\ Len(events) = 3
    /\ events[2] = <<"run_module_locally", "cloudwatch_metric_alarm">>
    /\ events[3] = <<"display_results", "output1">>
    /\ result = "output1"

\* ------------------------------------------------------------------------
\* Security group rule helpers

RuleHelpers == {"create_https_rule", "create_http_rule", "create_custom_rule"}

\* C24: every rule a rule helper returns holds exactly one of 'cidr_ip' and
\* 'group_id': the cidr_ip supplied if one is, else the source_group_id supplied
\* if one is, else cidr_ip '0.0.0.0/0'.
RuleSource ==
    (pc = "returned" /\ tool \in RuleHelpers) =>
        /\ Cardinality(Keys(result) \cap {"cidr_ip", "group_id"}) = 1
        /\ Cardinality({i \in 1..Len(result[2]) : result[2][i][1] \in {"cidr_ip", "group_id"}}) = 1
        /\ Truthy(req.cidr_ip) => Item(result, "cidr_ip") = req.cidr_ip
        /\ (~Truthy(req.cidr_ip) /\ Truthy(req.source_group_id)) =>
              Item(result, "group_id") = req.source_group_id
        /\ (~Truthy(req.cidr_ip) /\ ~Truthy(req.source_group_id)) =>
              Item(result, "cidr_ip") = PyStr("0.0.0.0/0")

\* an HTTPS rule asked for with both a CIDR block and a source group: the rule
\* holds the CIDR block and no group
RuleSourceWitness ==
    /\ pc = "returned"
    /\ tool = "create_https_rule"
    /\ Truthy(req.cidr_ip)
    /\ Truthy(req.source_group_id)
    /\ Item(result, "cidr_ip") = req.cidr_ip
    /\ "group_id" \notin Keys(result)

\* ------------------------------------------------------------------------
\* Tag merging

\* the keys of resource tags that are supplied (none for None and for {})
SuppliedKeys(resource_tags) == IF Truthy(resource_tags) THEN Keys(resource_tags) ELSE {}

\* C26: what merge_tags returns holds 'ManagedBy' and 'CreatedBy' and every key of
\* the supplied resource tags, each resource key with the resource's value and
\* each other default key with the default value, whatever merge_tags calls came
\* before; the mapping supplied is, after the call, as it was passed.
MergeTags ==
    (pc = "returned" /\ tool = "merge_tags") =>
        /\ {"ManagedBy", "CreatedBy"} \subseteq Keys(result)
        /\ Keys(result) = {"ManagedBy", "CreatedBy"} \cup SuppliedKeys(kwargs.resource_tags)
        /\ Len(result[2]) = Cardinality(Keys(result))
        /\ \A k \in SuppliedKeys(kwargs.resource_tags) :
              Item(result, k) = Item(kwargs.resource_tags, k)
        /\ "ManagedBy" \notin SuppliedKeys(kwargs.resource_tags) =>
              Item(result, "ManagedBy") = PyStr("FTL-Automation")
        /\ "CreatedBy" \notin SuppliedKeys(kwargs.resource_tags) =>
              Item(result, "CreatedBy") = PyStr("ftl-aws-tools")
        /\ req.resource_tags = kwargs.resource_tags

\* a call that overrode 'ManagedBy' came before; this call, with a tag of its own,
\* gets the default 'ManagedBy' again
MergeTagsWitness ==
    /\ pc = "returned"
    /\ tool = "merge_tags"
    /\ earlier.previous # NoCall
    /\ "ManagedBy" \in SuppliedKeys(earlier.previous.req.resource_tags)
    /\ kwargs.resource_tags = PyDict(<< <<"Owner", StrVal(1)>> >>)
    /\ result = PyDict(<< <<"ManagedBy", PyStr("FTL-Automation")>>,
                          <<"CreatedBy", PyStr("ftl-aws-tools")>>,
                          <<"Owner", StrVal(1)>> >>)

\* ------------------------------------------------------------------------
\* Standard module arguments

Threads == 1..MaxThreads

\* the session the n-th boto3.Session(...) call returned
Session(n) == <<"session", n>>

\* an AWSConfig has been constructed and no thread has read its session yet
InitSession ==
    /\ pc = "idle"
    /\ tool = "none"
    /\ req = EmptyMap
    /\ kwargs = EmptyMap
    /\ module_args = EmptyMap
    /\ runner = <<>>
    /\ output = NoOutput
    /\ result = NoOutput
    /\ error = NoError
    /\ events = <<>>
    /\ earlier = NoCall
    /\ \E region \in {None, StrVal(1)} : \E profile \in {None, PyStr(""), StrVal(1)} :
       \E env \in {NoEnvironment, [NoEnvironment EXCEPT !.AWS_REGION = PyStr("eu-west-1")]} :
          aws_config = AWSConfig(region, profile, env)
    /\ sessions = <<>>
    /\ access = [t \in Threads |-> [pc |-> "idle", new |-> None, returned |-> <<>>]]

\* SessionCheck with the test `if self._session is None:` lost: every read creates
SessionCheckUncached(t) ==
    /\ access[t].pc = "idle"
    /\ Len(access[t].returned) < MaxAccesses
    /\ access' = [access EXCEPT ![t].pc = "create"]
    /\ UNCHANGED <<pc, tool, req, kwargs, module_args, runner, output, result, error, events,
                   earlier, aws_config, sessions>>

\* thread t enters the property: `if self._session is None:`
SessionCheck(t) ==
    /\ access[t].pc = "idle"
    /\ Len(access[t].returned) < MaxAccesses
    /\ access' = [access EXCEPT ![t].pc =
                     IF aws_config._session = None THEN "create" ELSE "return"]
    /\ UNCHANGED <<pc, tool, req, kwargs, module_args, runner, output, result, error, events,
                   earlier, aws_config, sessions>>

\* boto3.Session(profile_name=self.profile, region_name=self.region) under
\* `if self.profile:`, else boto3.Session(region_name=self.region)
SessionCreate(t) ==
    /\ access[t].pc = "create"
    /\ sessions' = Append(sessions,
                          IF Truthy(aws_config.profile)
                          THEN [profile_name |-> aws_config.profile,
                                region_name |-> aws_config.region]
                          ELSE [region_name |-> aws_config.region])
    /\ access' = [access EXCEPT ![t].pc = "store", ![t].new = Session(Len(sessions) + 1)]
    /\ UNCHANGED <<pc, tool, req, kwargs, module_args, runner, output, result, error, events,
                   earlier, aws_config>>

\* self._session = <the new session>
SessionStore(t) ==
    /\ access[t].pc = "store"
    /\ aws_config' = [aws_config EXCEPT !._session = access[t].new]
    /\ access' = [access EXCEPT ![t].pc = "return", ![t].new = None]
    /\ UNCHANGED <<pc, tool, req, kwargs, module_args, runner, output, result, error, events,
                   earlier, sessions>>

\* return self._session
SessionReturn(t) ==
    /\ access[t].pc = "return"
    /\ access' = [access EXCEPT ![t].pc = "idle",
                                ![t].returned = Append(@, aws_config._session)]
    /\ UNCHANGED <<pc, tool, req, kwargs, module_args, runner, output, result, error, events,
                   earlier, aws_config, sessions>>

NextSession ==
    \E t \in Threads :
        \/ SessionCheck(t)
        \/ SessionCreate(t)
        \/ SessionStore(t)
        \/ SessionReturn(t)

SpecSession == InitSession /\ [][NextSession]_vars

\* thread t is the only thread that has begun a read of the session property
OnlyReader(t) ==
    \A u \in Threads \ {t} : access[u].pc = "idle" /\ access[u].returned = <<>>

\* C30: every session is created with the region fixed at construction, and with
\* the profile exactly when one is set; and as long as one thread alone reads the
\* session property, at most one session has been created, by its first read, and
\* every read has returned that session.
SessionLazyCaching ==
    /\ \A n \in 1..Len(sessions) :
          sessions[n] = (IF Truthy(aws_config.profile)
                         THEN [profile_name |-> aws_config.profile,
                               region_name |-> aws_config.region]
                         ELSE [region_name |-> aws_config.region])
    /\ \A t \in Threads :
          OnlyReader(t) =>
              /\ Len(sessions) <= 1
              /\ access[t].returned # <<>> => Len(sessions) = 1
              /\ \A k \in 1..Len(access[t].returned) : access[t].returned[k] = Session(1)

\* two threads made the first read together: each saw no session and each created
\* one, and they were handed different sessions
SessionRaceWitness ==
    /\ Len(sessions) = 2
    /\ access[1].returned = <<Session(1)>>
    /\ access[2].returned = <<Session(2)>>

\* one thread has read the property twice and no other thread has read it
SessionWitness ==
    /\ OnlyReader(1)
    /\ access[1].returned = <<Session(1), Session(1)>>
    /\ Len(sessions) = 1
    /\ Truthy(aws_config.profile)

====
